---- MODULE Spec2Model ----
(***************************************************************************)
(* File-catalog indexer: the denylist filter, the catalog-sync protocol    *)
(* (existence check, POST, conflict-driven PATCH, dry-run), the           *)
(* multi-process traversal scheduler, the path-collecting traverser and    *)
(* collector, the filename parser and the metadata manager.                *)
(*                                                                         *)
(* A path is a sequence of one-character strings, so that the component    *)
(* arithmetic of commonpath and the character order of sorted() are        *)
(* computed and not assumed.                                               *)
(***************************************************************************)
EXTENDS Integers, Sequences, FiniteSets, TLC

VARIABLES
    dl_path,    \* path_in_denylist / path_in_blacklist: the `path` argument
    dl_list,    \* ... the `denylist` / `blacklist` argument
    dl_result,  \* ... <<function name, returned bool>>, or <<>> before the call
    patch,      \* indexer_flags["patch"]
    dryrun,     \* indexer_flags["dryrun"]
    catalog,    \* the File Catalog: a set of records
    requests,   \* every request sent to the catalog, in order, with its answer
    faults,     \* requests answered with an HTTP error other than 409 so far
    s_pc,       \* index_file: "idle", or the request about to be sent
    s_file,     \* index_file: filepath
    s_metadata, \* index_file: the generated metadata
    s_patch_path, \* _post_metadata: patch_path of the 409 answer
    calls,      \* the index_file calls made so far, with their outcomes
    legacy,     \* TRUE: indexer.py (gather_file_info), FALSE: index.py
    n_processes, \* number of worker processes
    r_denylist, \* the denylist (blacklist) of the run
    starting_paths, \* the paths the run was started with
    fc_closed,  \* the REST clients that were closed
    r_pc,       \* the scheduler's position in its loop
    queue,      \* the path queue
    split,      \* paths per worker
    futures,    \* the outstanding workers, in dispatch order
    submitted,  \* workers submitted so far
    visited,    \* what the workers did to which path
    assigned,   \* the paths handed to workers, after their denylist filter
    racy,       \* TRUE: the filesystem changes under the run
    t_variant,  \* traverser.py: "path_collector" or "all_paths"
    t_exclude,  \* traverser.py: args.exclude
    t_pc,       \* traverser.py main: position in its loop
    t_dirs,     \* traverser.py main: dirs, the directories to submit next
    t_futures,  \* traverser.py main: futures, one record per submitted scan
    t_stdout,   \* traverser.py: the lines printed so far
    t_submitted, \* traverser.py: the directories handed to pool.submit so far
    t_paths,    \* traverser.py: args.paths
    c_force,    \* path_collector.py: args.force
    c_has_arg,  \* path_collector.py: --traverse-file was given
    c_chunk_size, \* path_collector.py: chunk_size
    c_lines,    \* the lines of the traverse file
    c_tsd,      \* the traverse staging directory: [exists, entries]
    c_pc,       \* path_collector.py: position in main / write_all_filepaths_to_files
    c_error,    \* the exception that ended the program, "" if none
    c_pos,      \* _chunk: the line of the traverse file read next
    c_id,       \* _chunk: _id
    c_queue,    \* _chunk: queue
    c_queue_f_size, \* _chunk: queue_f_size
    c_chunks,   \* the chunk files written, in order: [id, lines]
    c_archive,  \* the archive file: <<>>, or <<its lines>>
    c_traverse_file, \* TRUE while the traverse file is where it was
    f_patterns, \* parse_year_run_subrun_part: the `patterns` argument
    f_filename, \* parse_year_run_subrun_part: the `filename` argument
    f_result,   \* ... what the call returned or raised, <<>> before the call
    m_basic_only, \* MetadataManager.basic_only
    m_dir_path, \* MetadataManager.dir_path
    m_l2_dir_metadata, \* MetadataManager.l2_dir_metadata
    m_listing,  \* the directories: what each holds
    m_pc,       \* MetadataManager: "idle", or the step of new_file under way
    m_file,     \* new_file: the file, [dir, name]
    m_todo,     \* _prep_l2_dir_metadata: the entries os.scandir has yet to yield
    m_dir_meta_xml, \* _prep_l2_dir_metadata: dir_meta_xml
    m_gaps_files, \* _prep_l2_dir_metadata: gaps_files
    m_gcd_files, \* _prep_l2_dir_metadata: gcd_files
    m_scanned,  \* the entries the running scan has yielded, in order
    m_results,  \* what the new_file calls made so far returned or raised
    i_stores,   \* IceProd: the dataset numbers its two stores hold
    i_awaited,  \* the coroutines of the memoized lookups awaited so far
    i_calls,    \* the calls made on simulation files so far
    i_result    \* what the latest of them returned or raised

denyVars == <<dl_path, dl_list, dl_result>>
catVars == <<patch, dryrun, catalog, requests, faults>>
syncVars == <<s_pc, s_file, s_metadata, s_patch_path, calls>>
runVars ==
    <<legacy, n_processes, r_denylist, starting_paths, fc_closed, r_pc, queue, split, futures, submitted,
      visited, assigned, racy>>
indexVars == <<denyVars, catVars, syncVars, runVars>>
travVars == <<t_variant, t_exclude, t_pc, t_dirs, t_futures, t_stdout, t_submitted,
             t_paths>>
collVars ==
    <<c_force, c_has_arg, c_chunk_size, c_lines, c_tsd, c_pc, c_error, c_pos,
      c_id, c_queue, c_queue_f_size, c_chunks, c_archive, c_traverse_file>>
parseVars == <<f_patterns, f_filename, f_result>>
mgrVars ==
    <<m_basic_only, m_listing, m_dir_path, m_l2_dir_metadata, m_pc, m_file, m_todo,
      m_dir_meta_xml, m_gaps_files, m_gcd_files, m_scanned, m_results>>
simVars == <<i_stores, i_awaited, i_calls, i_result>>
restVars == <<travVars, collVars, parseVars, mgrVars, simVars>>
\* What the steps of one program leave alone.
travOthers == <<indexVars, collVars, parseVars, mgrVars, simVars>>
collOthers == <<indexVars, travVars, parseVars, mgrVars, simVars>>
parseOthers == <<indexVars, travVars, collVars, mgrVars, simVars>>
mgrOthers == <<indexVars, travVars, collVars, parseVars, simVars>>
simOthers == <<indexVars, travVars, collVars, parseVars, mgrVars>>
vars == <<indexVars, restVars>>

(***************************************************************************)
(* Characters and strings                                                  *)
(***************************************************************************)

\* The characters used by the model's paths, in ASCII order.
Alphabet == <<"/", "2", "a", "b", "d", "e", "f", "o", "p", "r", "t", "x", "z">>

Ord(c) == CHOOSE i \in 1..Len(Alphabet) : Alphabet[i] = c

SEP == "/"

\* Python's str < str: lexicographic by code point, a proper prefix is smaller.
RECURSIVE StrLess(_, _)
StrLess(a, b) ==
    IF a = <<>> THEN b # <<>>
    ELSE IF b = <<>> THEN FALSE
    ELSE IF Head(a) # Head(b) THEN Ord(Head(a)) < Ord(Head(b))
    ELSE StrLess(Tail(a), Tail(b))

\* Python's list < list on lists of strings.
RECURSIVE ListLess(_, _)
ListLess(a, b) ==
    IF a = <<>> THEN b # <<>>
    ELSE IF b = <<>> THEN FALSE
    ELSE IF Head(a) # Head(b) THEN StrLess(Head(a), Head(b))
    ELSE ListLess(Tail(a), Tail(b))

\* str.split("/"): the pieces between separators, empty pieces kept.
RECURSIVE SplitFrom(_, _)
SplitFrom(s, cur) ==
    IF s = <<>> THEN <<cur>>
    ELSE IF Head(s) = SEP THEN <<cur>> \o SplitFrom(Tail(s), <<>>)
    ELSE SplitFrom(Tail(s), Append(cur, Head(s)))

Split(s) == SplitFrom(s, <<>>)

\* "/".join(parts)
RECURSIVE JoinSep(_)
JoinSep(parts) ==
    IF parts = <<>> THEN <<>>
    ELSE IF Len(parts) = 1 THEN parts[1]
    ELSE parts[1] \o <<SEP>> \o JoinSep(Tail(parts))

SelectNonEmpty(parts) == SelectSeq(parts, LAMBDA c : c # <<>> /\ c # <<".">>)

\* Length of the longest common prefix of s1 and s2, the loop of commonpath
\* ("for i, c in enumerate(s1): if c != s2[i]: common = s1[:i]; break").
RECURSIVE CommonLen(_, _, _)
CommonLen(s1, s2, i) ==
    IF i > Len(s1) THEN Len(s1)
    ELSE IF s1[i] # s2[i] THEN i - 1
    ELSE CommonLen(s1, s2, i + 1)

\* os.path.commonpath([p, q]) of posixpath, for two absolute paths: split on
\* "/", drop empty and "." pieces, take the common leading components of the
\* min and the max of the two lists, and join them behind the leading "/".
commonpath(p, q) ==
    LET sp == SelectNonEmpty(Split(p))
        sq == SelectNonEmpty(Split(q))
        s1 == IF ListLess(sq, sp) THEN sq ELSE sp
        s2 == IF ListLess(sq, sp) THEN sp ELSE sq
        common == SubSeq(s1, 1, CommonLen(s1, s2, 1))
    IN  <<SEP>> \o JoinSep(common)

\* file_utils.commonpath: the wrapper index.py calls.
file_utils_commonpath(p, q) == commonpath(p, q)

(***************************************************************************)
(* The denylist filter                                                     *)
(***************************************************************************)

\* os.path.commonprefix-style comparison (character-wise), the classic slip.
RECURSIVE path_in_denylist_charprefix(_, _)
path_in_denylist_charprefix(path, denylist) ==
    IF denylist = <<>> THEN FALSE
    ELSE LET bad_path == Head(denylist) IN
         IF /\ Len(bad_path) <= Len(path)
            /\ SubSeq(path, 1, Len(bad_path)) = bad_path
         THEN TRUE
         ELSE path_in_denylist_charprefix(path, Tail(denylist))

\* index.py path_in_denylist: the first bad_path that equals
\* commonpath([path, bad_path]) makes the path denylisted.
RECURSIVE path_in_denylist(_, _)
path_in_denylist(path, denylist) ==
    IF denylist = <<>> THEN FALSE
    ELSE LET bad_path == Head(denylist) IN
         IF bad_path = file_utils_commonpath(path, bad_path) THEN TRUE
         ELSE path_in_denylist(path, Tail(denylist))

\* indexer.py path_in_blacklist
RECURSIVE path_in_blacklist(_, _)
path_in_blacklist(path, blacklist) ==
    IF blacklist = <<>> THEN FALSE
    ELSE LET bad_path == Head(blacklist) IN
         IF (path = bad_path) \/ (commonpath(path, bad_path) = bad_path) THEN TRUE
         ELSE path_in_blacklist(path, Tail(blacklist))

\* p lies under d: d is a proper leading part of p that ends at a separator.
IsUnder(p, d) ==
    /\ Len(p) > Len(d)
    /\ SubSeq(p, 1, Len(d)) = d
    /\ (d = <<SEP>> \/ p[Len(d) + 1] = SEP)

(***************************************************************************)
(* sorted_unique_filepaths                                                 *)
(***************************************************************************)

Range(seq) == {seq[i] : i \in 1..Len(seq)}

\* sorted(set(...)) on strings
RECURSIVE SortSet(_)
SortSet(S) ==
    IF S = {} THEN <<>>
    ELSE LET m == CHOOSE x \in S : \A y \in S : x = y \/ StrLess(x, y)
         IN  <<m>> \o SortSet(S \ {m})

\* indexer.py sorted_unique_filepaths(list_of_filepaths=...):
\* "[f for f in sorted(set(filepaths)) if f]"
sorted_unique_filepaths(list_of_filepaths) ==
    SelectSeq(SortSet(Range(list_of_filepaths)), LAMBDA f : f # <<>>)

(***************************************************************************)
(* Path names                                                              *)
(***************************************************************************)

Abs(components) == <<SEP>> \o JoinSep(components)

n_foo == <<"f", "o", "o">>
n_bar == <<"b", "a", "r">>
n_baz == <<"b", "a", "z">>
n_baz2 == <<"b", "a", "z", "2">>
n_foobar == <<"f", "o", "o", "b", "a", "r">>

n_data == <<"d", "a", "t", "a">>
n_exp == <<"e", "x", "p">>
n_x == <<"x">>

\* The scenario tree: /data/exp/foo is a directory holding the file x, and
\* /data/exp/foobar is a regular file next to it.
P_exp == Abs(<<n_data, n_exp>>)
P_exp_foo == Abs(<<n_data, n_exp, n_foo>>)
P_exp_foo_x == Abs(<<n_data, n_exp, n_foo, n_x>>)
P_exp_foobar == Abs(<<n_data, n_exp, n_foobar>>)
P_exp_baz == Abs(<<n_data, n_exp, n_baz>>)
P_exp_foo_baz == Abs(<<n_data, n_exp, n_foo, n_baz>>)

\* The paths of test_blacklist, and the root.
P_root == <<SEP>>
P_foo == Abs(<<n_foo>>)
P_foo_bar == Abs(<<n_foo, n_bar>>)
P_foo_baz == Abs(<<n_foo, n_baz>>)
P_foo_baz_foobar == Abs(<<n_foo, n_baz, n_foobar>>)
P_foo_baz2 == Abs(<<n_foo, n_baz2>>)
P_foo_baz2_foobar == Abs(<<n_foo, n_baz2, n_foobar>>)

DenyPaths ==
    {P_root, P_foo, P_foo_bar, P_foo_baz, P_foo_baz_foobar, P_foo_baz2,
     P_foo_baz2_foobar}

\* Largest denylist drawn for the pure-function check.
MaxDeny == 2

\* Denylists as index() hands them over: sorted and duplicate-free.
DenyLists == {SortSet(S) : S \in {T \in SUBSET DenyPaths : Cardinality(T) <= MaxDeny}}

(***************************************************************************)
(* The File Catalog, seen through its REST interface                       *)
(***************************************************************************)

API_FILES == <<"api", "files">>

\* "/api/files/{uuid}"
FileUrl(uuid) == <<"api", "files", uuid>>

\* A record whose location is not the path that was indexed.
generate_nolocation(filepath) ==
    [logical_name |-> filepath,
     checksum |-> <<"sha512", filepath>>,
     locations |-> {}]

\* BasicFileMetadata.generate: the record of an unchanged file is a function
\* of its path (logical_name, checksum of the content, one location).
generate(filepath) ==
    [logical_name |-> filepath,
     checksum |-> <<"sha512", filepath>>,
     locations |-> {filepath}]

\* Where a file-version lives when it was catalogued under another location.
P_elsewhere == Abs(<<n_data, n_bar>>)

\* A record of the same file-version made from another location: the
\* existence query on locations.path misses it, a POST conflicts with it.
ForeignRecord(filepath, uuid) ==
    [uuid |-> uuid,
     logical_name |-> filepath,
     checksum |-> <<"sha512", filepath>>,
     locations |-> {P_elsewhere}]

\* The record the indexer itself leaves for the file.
OwnRecord(filepath, uuid) ==
    [uuid |-> uuid,
     logical_name |-> filepath,
     checksum |-> <<"sha512", filepath>>,
     locations |-> {filepath}]

\* GET /api/files with logical_name and query {"locations.path": filepath}
FilesQuery(cat, filepath) ==
    {r \in cat : r.logical_name = filepath /\ filepath \in r.locations}

\* The records a POST of `metadata` conflicts with (duplicate key).
Conflicts(cat, metadata) ==
    {r \in cat : r.logical_name = metadata.logical_name}

NextUuid(cat) ==
    IF cat = {} THEN 1
    ELSE 1 + (CHOOSE u \in {r.uuid : r \in cat} : \A r \in cat : r.uuid <= u)

\* POST /api/files: 409 and the conflicting record's url, or 201 and the
\* record is created.
CatalogPost(cat, metadata) ==
    IF Conflicts(cat, metadata) # {}
    THEN [status |-> "409",
          file |-> FileUrl((CHOOSE r \in Conflicts(cat, metadata) : TRUE).uuid),
          cat |-> cat]
    ELSE [status |-> "201",
          file |-> FileUrl(NextUuid(cat)),
          cat |-> cat \cup {[uuid |-> NextUuid(cat),
                             logical_name |-> metadata.logical_name,
                             checksum |-> metadata.checksum,
                             locations |-> metadata.locations]}]

\* PATCH /api/files/{uuid} with the full record: overwrite.
CatalogPatch(cat, url, metadata) ==
    {IF FileUrl(r.uuid) = url
     THEN [uuid |-> r.uuid,
           logical_name |-> metadata.logical_name,
           checksum |-> metadata.checksum,
           locations |-> metadata.locations]
     ELSE r : r \in cat}

\* One entry of the request log: the request, the status of its answer and
\* the "file" field of the answer to a POST.
Req(method, url, body, status, file) ==
    [method |-> method, url |-> url, body |-> body, status |-> status,
     file |-> file]

\* The status of a request the catalog (or the exhausted retries of the
\* REST client) answered with an error that is not 409.
HTTP_ERROR == "HTTPError"

(***************************************************************************)
(* index_file and _post_metadata, one catalog request at a time            *)
(***************************************************************************)

\* An existence check that never finds the record (matches on nothing).
file_exists_in_fc_never(cat, filepath) == FALSE

\* index.py file_exists_in_fc
file_exists_in_fc(cat, filepath) == FilesQuery(cat, filepath) # {}

\* index_file that forgets the "not patch and exists" early return.
index_file_noskip(cat, filepath, p, fault) ==
    IF ~p /\ fault
    THEN [reqs |-> <<Req("GET", API_FILES, filepath, HTTP_ERROR, <<>>)>>,
          next |-> "raised", metadata |-> <<>>]
    ELSE [reqs |-> IF p THEN <<>> ELSE <<Req("GET", API_FILES, filepath, "200", <<>>)>>,
          next |-> "post", metadata |-> generate(filepath)]

\* index.py index_file up to the call of _post_metadata: with patch off the
\* existence GET comes first and a hit returns; otherwise the metadata is
\* generated and handed to _post_metadata.  `fault` says the GET is answered
\* with an HTTP error, which file_exists_in_fc lets through.
index_file(cat, filepath, p, fault) ==
    IF ~p /\ fault
    THEN [reqs |-> <<Req("GET", API_FILES, filepath, HTTP_ERROR, <<>>)>>,
          next |-> "raised", metadata |-> <<>>]
    ELSE IF ~p /\ file_exists_in_fc(cat, filepath)
    THEN [reqs |-> <<Req("GET", API_FILES, filepath, "200", <<>>)>>,
          next |-> "skipped_exists", metadata |-> <<>>]
    ELSE [reqs |-> IF p THEN <<>> ELSE <<Req("GET", API_FILES, filepath, "200", <<>>)>>,
          next |-> "post", metadata |-> generate(filepath)]

\* _post_metadata with the sense of the patch flag inverted.
post_metadata_inverted(cat, metadata, p, d, fault) ==
    IF fault
    THEN [reqs |-> <<Req("POST", API_FILES, metadata, HTTP_ERROR, <<>>)>>,
          next |-> "raised", cat |-> cat, patch_path |-> <<>>]
    ELSE LET ans == CatalogPost(cat, metadata) IN
         [reqs |-> <<Req("POST", API_FILES, metadata, ans.status, ans.file)>>,
          next |-> IF ans.status # "409" THEN "created"
                   ELSE IF ~p THEN "patch" ELSE "skipped_conflict",
          cat |-> ans.cat,
          patch_path |-> IF ans.status = "409" /\ ~p THEN ans.file ELSE <<>>]

\* index.py _post_metadata, the POST: under dryrun the function logs a
\* warning and sleeps, and then goes on to the POST like any other call.  A
\* 409 leads to the PATCH when patch is on and is only logged when it is off;
\* any other HTTP error is raised again.
post_metadata(cat, metadata, p, d, fault) ==
    IF fault
    THEN [reqs |-> <<Req("POST", API_FILES, metadata, HTTP_ERROR, <<>>)>>,
          next |-> "raised", cat |-> cat, patch_path |-> <<>>]
    ELSE LET ans == CatalogPost(cat, metadata) IN
         [reqs |-> <<Req("POST", API_FILES, metadata, ans.status, ans.file)>>,
          next |-> IF ans.status # "409" THEN "created"
                   ELSE IF p THEN "patch" ELSE "skipped_conflict",
          cat |-> ans.cat,
          patch_path |-> IF ans.status = "409" /\ p THEN ans.file ELSE <<>>]

\* index.py _post_metadata, the PATCH of the 409 branch.
post_metadata_patch(cat, patch_path, metadata, fault) ==
    IF fault
    THEN [reqs |-> <<Req("PATCH", patch_path, metadata, HTTP_ERROR, <<>>)>>,
          next |-> "raised", cat |-> cat]
    ELSE [reqs |-> <<Req("PATCH", patch_path, metadata, "200", <<>>)>>,
          next |-> "patched", cat |-> CatalogPatch(cat, patch_path, metadata)]

(***************************************************************************)
(* Specification of the catalog-sync protocol: index_file called again and *)
(* again on unchanged files with fixed flags                               *)
(***************************************************************************)

SyncFiles == {P_exp_foo_x, P_exp_foobar}

\* index_file calls made in one behaviour.
MaxCalls == 3

\* Requests answered with a non-409 HTTP error in one behaviour.
MaxFaults == 1

\* What the catalog may hold of a file before the first call.
InitialCatalogs ==
    {{}, {OwnRecord(P_exp_foo_x, 1)}, {ForeignRecord(P_exp_foo_x, 1)},
     {ForeignRecord(P_exp_foo_x, 1), OwnRecord(P_exp_foobar, 2)}}

\* The traverser's variables of a behaviour that runs no traverser.
TravIdle ==
    /\ t_variant = "none"
    /\ t_exclude = <<>>
    /\ t_pc = "idle"
    /\ t_dirs = <<>>
    /\ t_futures = <<>>
    /\ t_stdout = <<>>
    /\ t_submitted = <<>>
    /\ t_paths = <<>>

\* A directory that does not exist, and one that holds the given entries.
Absent == [exists |-> FALSE, entries |-> {}]
Dir(entries) == [exists |-> TRUE, entries |-> entries]

\* The path collector's variables of a behaviour that does not run it.
CollIdle ==
    /\ c_force = FALSE
    /\ c_has_arg = FALSE
    /\ c_chunk_size = 0
    /\ c_lines = <<>>
    /\ c_tsd = Absent
    /\ c_pc = "idle"
    /\ c_error = ""
    /\ c_pos = 0
    /\ c_id = 0
    /\ c_queue = <<>>
    /\ c_queue_f_size = 0
    /\ c_chunks = <<>>
    /\ c_archive = <<>>
    /\ c_traverse_file = FALSE

\* Python's None.
None == <<>>

\* The filename parser's variables of a behaviour that does not call it.
ParseIdle ==
    /\ f_patterns = <<>>
    /\ f_filename = <<>>
    /\ f_result = <<>>

\* The metadata manager's variables of a behaviour that does not use it.
MgrIdle ==
    /\ m_basic_only = FALSE
    /\ m_listing = <<>>
    /\ m_dir_path = ""
    /\ m_l2_dir_metadata = <<>>
    /\ m_pc = "unused"
    /\ m_file = <<>>
    /\ m_todo = {}
    /\ m_dir_meta_xml = None
    /\ m_gaps_files = {}
    /\ m_gcd_files = {}
    /\ m_scanned = <<>>
    /\ m_results = <<>>

\* The simulation metadata's variables of a behaviour without simulation
\* files.
SimIdle ==
    /\ i_stores = <<>>
    /\ i_awaited = {}
    /\ i_calls = 0
    /\ i_result = <<>>

\* The programs under resources/ and the metadata classes at rest.
RestIdle == TravIdle /\ CollIdle /\ ParseIdle /\ MgrIdle /\ SimIdle

\* The scheduler's variables of a behaviour that runs no traversal.
RunIdle ==
    /\ legacy = FALSE
    /\ n_processes = 1
    /\ r_denylist = <<>>
    /\ starting_paths = <<>>
    /\ fc_closed = {}
    /\ r_pc = "idle"
    /\ queue = <<>>
    /\ split = 0
    /\ futures = <<>>
    /\ submitted = 0
    /\ visited = {}
    /\ assigned = {}
    /\ racy = FALSE

\* The variables of the pure-function check, at rest.
DenyIdle ==
    /\ dl_path = <<>>
    /\ dl_list = <<>>
    /\ dl_result = <<>>

SyncInit ==
    /\ DenyIdle
    /\ RestIdle
    /\ RunIdle
    /\ patch \in BOOLEAN
    /\ dryrun \in BOOLEAN
    /\ catalog \in InitialCatalogs
    /\ requests = <<>>
    /\ faults = 0
    /\ s_pc = "idle"
    /\ s_file = <<>>
    /\ s_metadata = <<>>
    /\ s_patch_path = <<>>
    /\ calls = <<>>

\* Tag the requests of a step with the call they belong to.
Tagged(reqs, who) == [i \in 1..Len(reqs) |-> [who |-> who] @@ reqs[i]]

CountFault(fault) == IF fault THEN faults + 1 ELSE faults

Finish(outcome, cat) ==
    [calls EXCEPT ![Len(calls)].outcome = outcome, ![Len(calls)].after = cat]

\* index_file(filepath, ...) is called and runs up to its first write.
IndexFileCall ==
    /\ s_pc = "idle"
    /\ Len(calls) < MaxCalls
    /\ \E filepath \in SyncFiles, fault \in BOOLEAN :
        /\ fault => (faults < MaxFaults /\ ~patch)
        /\ LET r == index_file(catalog, filepath, patch, fault)
               n == Len(calls) + 1
               entry == [file |-> filepath, outcome |-> "running",
                         before |-> catalog, after |-> catalog]
           IN  /\ requests' = requests \o Tagged(r.reqs, n)
               /\ faults' = CountFault(fault)
               /\ s_file' = filepath
               /\ s_metadata' = r.metadata
               /\ s_pc' = IF r.next = "post" THEN "post" ELSE "idle"
               /\ calls' = Append(calls,
                     IF r.next = "post" THEN entry
                     ELSE [entry EXCEPT !.outcome = r.next])
    /\ UNCHANGED <<patch, dryrun, catalog, s_patch_path, denyVars, restVars, runVars>>

\* _post_metadata sends the POST and reads the answer.
PostMetadata ==
    /\ s_pc = "post"
    /\ \E fault \in BOOLEAN :
        /\ fault => faults < MaxFaults
        /\ LET r == post_metadata(catalog, s_metadata, patch, dryrun, fault) IN
            /\ requests' = requests \o Tagged(r.reqs, Len(calls))
            /\ faults' = CountFault(fault)
            /\ catalog' = r.cat
            /\ s_patch_path' = r.patch_path
            /\ s_pc' = IF r.next = "patch" THEN "patch" ELSE "idle"
            /\ calls' = IF r.next = "patch" THEN calls ELSE Finish(r.next, r.cat)
    /\ UNCHANGED <<patch, dryrun, s_file, s_metadata, denyVars, restVars, runVars>>

\* _post_metadata sends the PATCH of the 409 branch.
PatchMetadata ==
    /\ s_pc = "patch"
    /\ \E fault \in BOOLEAN :
        /\ fault => faults < MaxFaults
        /\ LET r == post_metadata_patch(catalog, s_patch_path, s_metadata, fault) IN
            /\ requests' = requests \o Tagged(r.reqs, Len(calls))
            /\ faults' = CountFault(fault)
            /\ catalog' = r.cat
            /\ s_pc' = "idle"
            /\ calls' = Finish(r.next, r.cat)
    /\ UNCHANGED <<patch, dryrun, s_file, s_metadata, s_patch_path, denyVars, restVars, runVars>>

SyncNext == IndexFileCall \/ PostMetadata \/ PatchMetadata

SpecSync == SyncInit /\ [][SyncNext]_vars

\* The catalog-sync variables of a behaviour that never talks to the catalog.
SyncIdle ==
    /\ patch = FALSE
    /\ dryrun = FALSE
    /\ catalog = {}
    /\ requests = <<>>
    /\ faults = 0
    /\ s_pc = "idle"
    /\ s_file = <<>>
    /\ s_metadata = <<>>
    /\ s_patch_path = <<>>
    /\ calls = <<>>

(***************************************************************************)
(* Specification of the pure denylist functions                            *)
(***************************************************************************)

DenyInit ==
    /\ SyncIdle
    /\ RestIdle
    /\ RunIdle
    /\ dl_path \in DenyPaths
    /\ dl_list \in DenyLists
    /\ dl_result = <<>>

CallPathInDenylist ==
    /\ dl_result = <<>>
    /\ dl_result' = <<"path_in_denylist", path_in_denylist(dl_path, dl_list)>>
    /\ UNCHANGED <<dl_path, dl_list, restVars, catVars, syncVars, runVars>>

CallPathInBlacklist ==
    /\ dl_result = <<>>
    /\ dl_result' = <<"path_in_blacklist", path_in_blacklist(dl_path, dl_list)>>
    /\ UNCHANGED <<dl_path, dl_list, restVars, catVars, syncVars, runVars>>

DenyNext == CallPathInDenylist \/ CallPathInBlacklist

SpecDeny == DenyInit /\ [][DenyNext]_vars

(***************************************************************************)
(* The filesystem of a traversal                                           *)
(***************************************************************************)

\* Two /data/exp/... paths run together: the file /data/exp/foobar followed
\* by /data/exp/foo/x.
P_concatenated == P_exp_foobar \o P_exp_foo_x

\* The tree, which does not change during a run.
Tree ==
    (P_exp :> "dir") @@ (P_exp_foo :> "dir") @@ (P_exp_foo_x :> "file")
    @@ (P_exp_foobar :> "file") @@ (P_exp_baz :> "symlink")
    @@ (P_exp_foo_baz :> "fifo")

\* What os.lstat(path) finds: the entry's type, or the error it raises (a
\* path through a regular file is ENOTDIR, anything else unknown is ENOENT).
Lstat(path) ==
    IF path \in DOMAIN Tree THEN Tree[path]
    ELSE IF \E a \in DOMAIN Tree : Tree[a] # "dir" /\ IsUnder(path, a)
         THEN "NotADirectoryError"
         ELSE "FileNotFoundError"

\* indexer.py is_processable_path, for an entry that exists
is_processable_path(path) ==
    Lstat(path) \notin {"symlink", "socket", "fifo", "block", "char"}

\* Every entry of the directory, symbolic links included.
get_subpaths_with_links(path) ==
    SortSet({c \in DOMAIN Tree :
                /\ IsUnder(c, path)
                /\ \A i \in (Len(path) + 2)..Len(c) : c[i] # SEP})

\* The entries os.scandir(path) yields, symbolic links left out.
get_subpaths(path) ==
    SortSet({c \in DOMAIN Tree :
                /\ IsUnder(c, path)
                /\ \A i \in (Len(path) + 2)..Len(c) : c[i] # SEP
                /\ Tree[c] # "symlink"})

DATA_EXP == P_exp \o <<SEP>>

StartsWithAt(str, i, pre) ==
    /\ i + Len(pre) - 1 <= Len(str)
    /\ SubSeq(str, i, i + Len(pre) - 1) = pre

\* indexer.py fix_known_filepath_issues: re.match of
\* (?P<first>/data/exp/.*)(?P<second>/data/exp/.*) -- the greedy first group
\* ends where the last later "/data/exp/" begins -- and the two groups come
\* back through sorted_unique_filepaths; <<>> stands for None.
fix_known_filepath_issues(filepath) ==
    LET starts == {i \in (Len(DATA_EXP) + 1)..Len(filepath) :
                      StartsWithAt(filepath, i, DATA_EXP)}
    IN  IF StartsWithAt(filepath, 1, DATA_EXP) /\ starts # {}
        THEN LET k == CHOOSE i \in starts : \A j \in starts : j <= i
             IN  sorted_unique_filepaths(
                     <<SubSeq(filepath, 1, k - 1), SubSeq(filepath, k, Len(filepath))>>)
        ELSE <<>>

(***************************************************************************)
(* The worker: _index / index_paths (index.py) and process_work /          *)
(* process_paths (indexer.py)                                              *)
(***************************************************************************)

\* indexer_flags["no_patch"] of indexer.py
no_patch == ~patch

\* index.py _index up to the call of index_paths: sort, deduplicate and
\* filter the slice.  The result is the worker as it starts its loop.
index_begin(paths, dlist, id) ==
    [id |-> id,
     paths |-> SelectSeq(sorted_unique_filepaths(paths),
                         LAMBDA q : ~path_in_denylist(q, dlist)),
     i |-> 1, child_paths |-> <<>>, st |-> "running", pc |-> "path",
     metadata |-> <<>>, patch_path |-> <<>>, client |-> id]

\* indexer.py process_work up to the call of process_paths: filter the slice.
process_work_begin(paths, blacklist, id) ==
    [id |-> id,
     paths |-> SelectSeq(paths, LAMBDA q : ~path_in_blacklist(q, blacklist)),
     i |-> 1, child_paths |-> <<>>, st |-> "running", pc |-> "path",
     metadata |-> <<>>, patch_path |-> <<>>, client |-> id]

\* pool.submit(_index, paths, ...) / pool.submit(process_work, paths, ...)
Submit(paths, id) ==
    IF legacy THEN process_work_begin(paths, r_denylist, id)
    ELSE index_begin(paths, r_denylist, id)

\* indexer.py process_file: no existence check, the metadata goes straight
\* to request_post_patch.
process_file(cat, filepath) ==
    [reqs |-> <<>>, next |-> "post", metadata |-> generate(filepath)]

\* indexer.py request_post_patch, the POST
request_post_patch(cat, metadata, dont_patch, fault) ==
    IF fault
    THEN [reqs |-> <<Req("POST", API_FILES, metadata, HTTP_ERROR, <<>>)>>,
          next |-> "raised", cat |-> cat, patch_path |-> <<>>]
    ELSE LET ans == CatalogPost(cat, metadata) IN
         [reqs |-> <<Req("POST", API_FILES, metadata, ans.status, ans.file)>>,
          next |-> IF ans.status # "409" THEN "created"
                   ELSE IF dont_patch THEN "skipped_conflict" ELSE "patch",
          cat |-> ans.cat,
          patch_path |-> IF ans.status = "409" /\ ~dont_patch THEN ans.file ELSE <<>>]

Visit(w, what) == [path |-> w.paths[w.i], what |-> what, by |-> w.id]

Advance(w) == [w EXCEPT !.i = w.i + 1, !.pc = "path"]

\* What can happen to a path between its listing and its processing:
\* nothing; os.lstat raises because it has vanished, cannot be read, or a
\* parent has become a file; it has become a special file; or it goes away
\* after os.lstat and the type tests, so that reading it (generate, scandir)
\* raises.
Races ==
    {"none", "FileNotFoundError", "PermissionError", "NotADirectoryError",
     "special", "gone_after_lstat"}

\* os.lstat(path) at the time the worker takes the path up
LstatNow(path, race) ==
    IF race \in {"FileNotFoundError", "PermissionError", "NotADirectoryError"}
    THEN race
    ELSE Lstat(path)

\* The OSError of generate is not caught.
not_gathered_goes_on(r) == r

\* index_file / process_file when manager.new_file(filepath).generate()
\* raises an OSError: it is logged and the function returns, after the
\* existence GET if there was one.
not_gathered(r) ==
    IF r.next = "post" THEN [r EXCEPT !.next = "not_gathered", !.metadata = <<>>]
    ELSE r

\* One pass of the loop of index_paths / process_paths over the next path of
\* the slice, up to the first catalog write.
WorkerPath(k) ==
    /\ k \in 1..Len(futures)
    /\ futures[k].st = "running"
    /\ futures[k].pc = "path"
    /\ futures[k].i <= Len(futures[k].paths)
    /\ \E race \in (IF racy THEN Races ELSE {"none"}) :
       LET w == futures[k]
           path == w.paths[w.i]
           found == LstatNow(path, race)
           gone == race = "gone_after_lstat"
       IN
        IF found = "NotADirectoryError" /\ legacy
             /\ fix_known_filepath_issues(path) # <<>>
        THEN \* paths.extend(fixed_filepaths)
             /\ futures' = [futures EXCEPT ![k] =
                    [Advance(w) EXCEPT !.paths = w.paths \o fix_known_filepath_issues(path)]]
             /\ visited' = visited \cup {Visit(w, "fixed")}
             /\ assigned' = assigned \cup Range(fix_known_filepath_issues(path))
             /\ UNCHANGED <<requests, faults>>
        ELSE IF found \in {"NotADirectoryError", "FileNotFoundError", "PermissionError"}
                  \/ ~is_processable_path(path) \/ race = "special"
                  \/ (found = "dir" /\ gone)
        THEN \* "Skipping ..."
             /\ futures' = [futures EXCEPT ![k] = Advance(w)]
             /\ visited' = visited \cup {Visit(w, "skip")}
             /\ UNCHANGED <<requests, faults, assigned>>
        ELSE IF found = "dir"
        THEN /\ futures' = [futures EXCEPT ![k] =
                    [Advance(w) EXCEPT !.child_paths = w.child_paths \o get_subpaths(path)]]
             /\ visited' = visited \cup {Visit(w, "list")}
             /\ UNCHANGED <<requests, faults, assigned>>
        ELSE \* a regular file: index_file / process_file
             \E fault \in BOOLEAN :
                /\ fault => (faults < MaxFaults /\ ~patch /\ ~legacy)
                /\ LET r0 == IF legacy THEN process_file(catalog, path)
                             ELSE index_file(catalog, path, patch, fault)
                       r == IF gone THEN not_gathered(r0) ELSE r0
                   IN  /\ requests' = requests \o Tagged(r.reqs, w.id)
                       /\ faults' = CountFault(fault)
                       /\ futures' = [futures EXCEPT ![k] =
                            IF r.next = "post"
                            THEN [w EXCEPT !.pc = "post", !.metadata = r.metadata]
                            ELSE IF r.next = "raised"
                            THEN [w EXCEPT !.st = "raised"]
                            ELSE Advance(w)]
                       /\ visited' = visited \cup
                            {Visit(w, IF gone /\ r0.next = "post" THEN "skip" ELSE "index")}
                /\ UNCHANGED assigned
    /\ UNCHANGED <<patch, dryrun, catalog, denyVars, restVars, syncVars, legacy, racy,
                   n_processes, r_denylist, starting_paths, fc_closed, r_pc, queue, split, submitted>>

\* The worker's POST.
WorkerPost(k) ==
    /\ k \in 1..Len(futures)
    /\ futures[k].st = "running"
    /\ futures[k].pc = "post"
    /\ \E fault \in BOOLEAN :
        /\ fault => faults < MaxFaults
        /\ LET w == futures[k]
               r == IF legacy
                    THEN request_post_patch(catalog, w.metadata, no_patch, fault)
                    ELSE post_metadata(catalog, w.metadata, patch, dryrun, fault)
           IN  /\ requests' = requests \o Tagged(r.reqs, w.id)
               /\ faults' = CountFault(fault)
               /\ catalog' = r.cat
               /\ futures' = [futures EXCEPT ![k] =
                    IF r.next = "patch"
                    THEN [w EXCEPT !.pc = "patch", !.patch_path = r.patch_path]
                    ELSE IF r.next = "raised"
                    THEN [w EXCEPT !.st = "raised"]
                    ELSE Advance(w)]
    /\ UNCHANGED <<patch, dryrun, denyVars, restVars, syncVars, legacy, racy,
                   n_processes,
                   r_denylist, starting_paths, fc_closed, r_pc, queue, split, submitted, visited, assigned>>

\* The worker's PATCH after a 409.
WorkerPatch(k) ==
    /\ k \in 1..Len(futures)
    /\ futures[k].st = "running"
    /\ futures[k].pc = "patch"
    /\ \E fault \in BOOLEAN :
        /\ fault => faults < MaxFaults
        /\ LET w == futures[k]
               r == post_metadata_patch(catalog, w.patch_path, w.metadata, fault)
           IN  /\ requests' = requests \o Tagged(r.reqs, w.id)
               /\ faults' = CountFault(fault)
               /\ catalog' = r.cat
               /\ futures' = [futures EXCEPT ![k] =
                    IF r.next = "raised" THEN [w EXCEPT !.st = "raised"]
                    ELSE Advance(w)]
    /\ UNCHANGED <<patch, dryrun, denyVars, restVars, syncVars, legacy, racy,
                   n_processes,
                   r_denylist, starting_paths, fc_closed, r_pc, queue, split, submitted, visited, assigned>>

\* The loop is over: fc_rc.close() and return child_paths.
WorkerReturn(k) ==
    /\ k \in 1..Len(futures)
    /\ futures[k].st = "running"
    /\ futures[k].pc = "path"
    /\ futures[k].i > Len(futures[k].paths)
    /\ futures' = [futures EXCEPT ![k].st = "done"]
    /\ fc_closed' = fc_closed \cup {futures[k].client}
    /\ UNCHANGED <<catVars, denyVars, restVars, syncVars, legacy, racy,
                   n_processes, r_denylist, starting_paths,
                   r_pc, queue, split, submitted, visited, assigned>>

(***************************************************************************)
(* The scheduler: _recursively_index_multiprocessed / gather_file_info     *)
(***************************************************************************)

\* math.ceil(a / b)
Ceil(a, b) == (a + b - 1) \div b

Min(a, b) == IF a < b THEN a ELSE b

\* Every pass submits n_processes workers, whatever is outstanding.
Divvy_refill(q, futs, id) ==
    LET m == n_processes IN
    [queue |-> SubSeq(q, Min(m * split, Len(q)) + 1, Len(q)),
     futures |-> futs \o
        [j \in 1..m |->
            Submit(SubSeq(q, Min((j - 1) * split, Len(q)) + 1, Min(j * split, Len(q))),
                   id + j)],
     submitted |-> id + m]

\* The free workers share the whole queue: each gets 1/m of what is there.
Divvy_share_all(q, futs, id) ==
    LET m == n_processes - Len(futs)
        share == Ceil(Len(q), m)
    IN
    [queue |-> <<>>,
     futures |-> futs \o
        [j \in 1..m |->
            Submit(SubSeq(q, Min((j - 1) * share, Len(q)) + 1, Min(j * share, Len(q))),
                   id + j)],
     submitted |-> id + m]

\* "while n_processes != len(futures): paths, queue = queue[:split],
\* queue[split:]; futures.append(pool.submit(...))": the m free workers get
\* the first m runs of `split` paths (the last ones shorter or empty when the
\* queue runs out), and the queue keeps what is left.
Divvy(q, futs, id) ==
    LET m == n_processes - Len(futs) IN
    [queue |-> SubSeq(q, Min(m * split, Len(q)) + 1, Len(q)),
     futures |-> futs \o
        [j \in 1..m |->
            Submit(SubSeq(q, Min((j - 1) * split, Len(q)) + 1, Min(j * split, Len(q))),
                   id + j)],
     submitted |-> id + m]

\* "while futures or queue"
LoopContinues == futures # <<>> \/ queue # <<>>

\* The loop test succeeds; a non-empty queue is sorted, deduplicated and
\* divided among the free workers.
DivvyUp ==
    /\ r_pc = "top"
    /\ LoopContinues
    /\ IF queue # <<>>
       THEN \E sorted \in {sorted_unique_filepaths(queue)} :
            \E d \in {Divvy(sorted, futures, submitted)} :
            /\ queue' = d.queue
            /\ futures' = d.futures
            /\ submitted' = d.submitted
            /\ assigned' = assigned \cup
                  UNION {Range(d.futures[k].paths) : k \in (Len(futures) + 1)..Len(d.futures)}
       ELSE UNCHANGED <<queue, futures, submitted, assigned>>
    /\ r_pc' = "wait"
    /\ UNCHANGED <<catVars, denyVars, restVars, syncVars, legacy, racy,
                   n_processes, r_denylist, starting_paths, fc_closed,
                   split, visited>>

\* The scheduler takes the result of whichever worker has finished.
Harvest_completion_order ==
    /\ r_pc = "wait"
    /\ \E k \in 1..Len(futures) :
        /\ futures[k].st \in {"done", "raised"}
        /\ futures' = SubSeq(futures, 1, k - 1) \o SubSeq(futures, k + 1, Len(futures))
        /\ IF futures[k].st = "raised"
           THEN /\ r_pc' = "failed"
                /\ UNCHANGED <<queue, split>>
           ELSE /\ r_pc' = "top"
                /\ IF futures[k].child_paths # <<>>
                   THEN /\ queue' = queue \o futures[k].child_paths
                        /\ split' = Ceil(Len(queue \o futures[k].child_paths), n_processes)
                   ELSE UNCHANGED <<queue, split>>
    /\ UNCHANGED <<catVars, denyVars, restVars, syncVars, legacy, racy,
                   n_processes, r_denylist, starting_paths, fc_closed,
                   submitted, visited, assigned>>

\* futures[0] is done: pop it and take its result, which raises what the
\* worker raised; child paths extend the queue and split is recomputed.
Harvest ==
    /\ r_pc = "wait"
    /\ futures # <<>>
    /\ futures[1].st \in {"done", "raised"}
    /\ futures' = Tail(futures)
    /\ IF futures[1].st = "raised"
       THEN /\ r_pc' = "failed"
            /\ UNCHANGED <<queue, split>>
       ELSE /\ r_pc' = "top"
            /\ IF futures[1].child_paths # <<>>
               THEN /\ queue' = queue \o futures[1].child_paths
                    /\ split' = Ceil(Len(queue \o futures[1].child_paths), n_processes)
               ELSE UNCHANGED <<queue, split>>
    /\ UNCHANGED <<catVars, denyVars, restVars, syncVars, legacy, racy,
                   n_processes, r_denylist, starting_paths, fc_closed,
                   submitted, visited, assigned>>

\* The loop test fails.
LoopExit ==
    /\ r_pc = "top"
    /\ ~LoopContinues
    /\ r_pc' = "done"
    /\ UNCHANGED <<catVars, denyVars, restVars, syncVars, legacy, racy,
                   n_processes, r_denylist, starting_paths, fc_closed,
                   queue, split, futures, submitted, visited, assigned>>

\* Most worker processes of a run.
MaxProcs == 2

\* The starting paths of a run, as sorted_unique_filepaths leaves them.
StartChoices ==
    {sorted_unique_filepaths(<<P_exp>>),
     sorted_unique_filepaths(<<P_exp_foo, P_exp_foo_x>>),
     sorted_unique_filepaths(<<P_concatenated, P_exp_foo_x, P_exp_foobar>>),
     sorted_unique_filepaths(<<P_concatenated>>),
     sorted_unique_filepaths(<<P_exp_baz, P_exp_foobar>>),
     sorted_unique_filepaths(<<P_exp_foo_x, P_exp_foobar>>)}

\* The state in which the scheduler starts.
RunStart ==
    /\ DenyIdle
    /\ RestIdle
    /\ s_pc = "idle" /\ s_file = <<>> /\ s_metadata = <<>> /\ s_patch_path = <<>>
    /\ calls = <<>>
    /\ legacy \in BOOLEAN
    /\ patch \in BOOLEAN
    /\ dryrun \in (IF legacy THEN {FALSE} ELSE BOOLEAN)
    /\ n_processes \in (IF legacy THEN 1..MaxProcs ELSE 2..MaxProcs)
    /\ r_denylist \in {<<>>, <<P_exp_foo>>}
    /\ catalog = {}
    /\ requests = <<>>
    /\ faults = 0
    /\ r_pc = "top"
    /\ starting_paths \in StartChoices
    /\ queue = starting_paths
    /\ fc_closed = {}
    /\ split = Ceil(Len(queue), n_processes)
    /\ futures = <<>>
    /\ submitted = 0
    /\ visited = {}
    /\ assigned = {}

\* A run over a filesystem that stays as it is.
RunInit == RunStart /\ racy = FALSE

\* A run over a filesystem that changes under it.
RaceInit == RunStart /\ racy = TRUE

WorkerStep ==
    \E k \in 1..Len(futures) :
        WorkerPath(k) \/ WorkerPost(k) \/ WorkerPatch(k) \/ WorkerReturn(k)

RunNext == DivvyUp \/ Harvest \/ LoopExit \/ WorkerStep

SpecRun == RunInit /\ [][RunNext]_vars

\* The scheduler and every worker process keep running.
SpecRunFair == SpecRun /\ WF_vars(RunNext)

SpecRace == RaceInit /\ [][RunNext]_vars

(***************************************************************************)
(* _recursively_index: the multi-process scheduler for n_processes > 1,    *)
(* and otherwise the loop "while queue: queue = _index(queue, ...)"        *)
(***************************************************************************)

\* _recursively_index is entered with n_processes = 1: queue = starting_paths
SingleInit ==
    /\ DenyIdle
    /\ RestIdle
    /\ s_pc = "idle" /\ s_file = <<>> /\ s_metadata = <<>> /\ s_patch_path = <<>>
    /\ calls = <<>>
    /\ legacy = FALSE
    /\ patch \in BOOLEAN
    /\ dryrun \in BOOLEAN
    /\ n_processes = 1
    /\ r_denylist \in {<<>>, <<P_exp_foo>>}
    /\ catalog = {}
    /\ requests = <<>>
    /\ faults = 0
    /\ r_pc = "single_top"
    /\ starting_paths \in StartChoices
    /\ queue = starting_paths
    /\ fc_closed = {}
    /\ split = 0
    /\ futures = <<>>
    /\ submitted = 0
    /\ visited = {}
    /\ assigned = {}
    /\ racy = FALSE

\* "while queue:" succeeds and _index(queue, ...) is called, in the
\* scheduler's own process; `futures` holds the call while it runs.  A
\* worker process has a client of its own (a pickled copy of fc_rc in
\* index.py, a new RestClient in indexer.py), numbered as the worker; here
\* every call is handed fc_rc itself, client 0.
SingleIndex ==
    /\ r_pc = "single_top"
    /\ queue # <<>>
    /\ futures' = <<[Submit(queue, submitted + 1) EXCEPT !.client = 0]>>
    /\ submitted' = submitted + 1
    /\ assigned' = assigned \cup Range(Submit(queue, submitted + 1).paths)
    /\ r_pc' = "single_call"
    /\ UNCHANGED <<catVars, denyVars, restVars, syncVars, legacy, racy,
                   n_processes, r_denylist, starting_paths, fc_closed,
                   queue, split, visited>>

\* _index returns and its child paths become the queue, or it raises and
\* the exception leaves the loop.
SingleReturn ==
    /\ r_pc = "single_call"
    /\ futures[1].st \in {"done", "raised"}
    /\ futures' = <<>>
    /\ IF futures[1].st = "raised"
       THEN /\ r_pc' = "failed"
            /\ UNCHANGED queue
       ELSE /\ r_pc' = "single_top"
            /\ queue' = futures[1].child_paths
    /\ UNCHANGED <<catVars, denyVars, restVars, syncVars, legacy, racy,
                   n_processes, r_denylist, starting_paths, fc_closed,
                   split, submitted, visited, assigned>>

\* "while queue:" fails.
SingleExit ==
    /\ r_pc = "single_top"
    /\ queue = <<>>
    /\ r_pc' = "done"
    /\ UNCHANGED <<catVars, denyVars, restVars, syncVars, legacy, racy,
                   n_processes, r_denylist, starting_paths, fc_closed,
                   queue, split, futures, submitted, visited, assigned>>

\* A recursive run of index.py with any number of processes.
RecursiveInit == SingleInit \/ (RunInit /\ ~legacy)

RecursiveNext == RunNext \/ SingleIndex \/ SingleReturn \/ SingleExit

SpecRecursive == RecursiveInit /\ [][RecursiveNext]_vars

(***************************************************************************)
(* Claims about the denylist functions                                     *)
(***************************************************************************)

\* C10: path_in_denylist(p, D) (and path_in_blacklist) returns true exactly
\* when p is in D or some d in D equals commonpath(p, d); that is the case
\* exactly when p equals an entry or lies under one, so a descendant is
\* denylisted while an ancestor and a name-prefix sibling are not.
C10_DenylistIffCommonpath ==
    dl_result # <<>> =>
        /\ dl_result[2] = (\/ dl_path \in Range(dl_list)
                           \/ \E d \in Range(dl_list) : d = commonpath(dl_path, d))
        /\ dl_result[2] = (\E d \in Range(dl_list) : dl_path = d \/ IsUnder(dl_path, d))

\* The name-prefix sibling /foo/baz2 against the entry /foo/baz, answered.
C10_Witness ==
    /\ dl_result # <<>>
    /\ dl_result[1] = "path_in_denylist"
    /\ dl_path = P_foo_baz2
    /\ P_foo_baz \in Range(dl_list)
    /\ P_foo_baz2 \notin Range(dl_list)
    /\ dl_result[2] = FALSE

(***************************************************************************)
(* Claims about the catalog-sync protocol                                  *)
(***************************************************************************)

\* The requests of call n with one of the given methods.
ReqsOf(n, methods) ==
    {i \in 1..Len(requests) : requests[i].who = n /\ requests[i].method \in methods}

Writes == {"POST", "PATCH"}

Completed(n) == calls[n].outcome # "running"

\* No request of call n was answered with an HTTP error other than 409.
NoHttpError(n) ==
    \A i \in ReqsOf(n, {"GET", "POST", "PATCH"}) : requests[i].status # HTTP_ERROR

\* The catalog holds nothing of the file: no record the existence query
\* finds and none a POST conflicts with.
Holds(cat, filepath) ==
    FilesQuery(cat, filepath) # {} \/ Conflicts(cat, generate(filepath)) # {}

\* C1: two index_file calls in a row on the same unchanged file with
\* patch=false (and dryrun off), the first starting from a catalog that does
\* not hold the file, send exactly one POST and no PATCH between them: the
\* first call creates the record, the second finds it and writes nothing.
C1_TwiceOnePost ==
    \A n \in 1..(Len(calls) - 1) :
        ( /\ ~patch /\ ~dryrun
          /\ calls[n].file = calls[n + 1].file
          /\ Completed(n + 1)
          /\ ~Holds(calls[n].before, calls[n].file)
          /\ NoHttpError(n) /\ NoHttpError(n + 1) )
        => /\ Cardinality(ReqsOf(n, {"POST"}) \cup ReqsOf(n + 1, {"POST"})) = 1
           /\ ReqsOf(n, {"PATCH"}) \cup ReqsOf(n + 1, {"PATCH"}) = {}
           /\ calls[n].outcome = "created"
           /\ ReqsOf(n, {"POST"}) # {}
           /\ calls[n + 1].outcome = "skipped_exists"
           /\ calls[n + 1].after = calls[n + 1].before

\* Two finished calls on a file the catalog did not hold.
C1_Witness ==
    /\ ~patch /\ ~dryrun
    /\ Len(calls) = 2
    /\ calls[1].file = P_exp_foobar /\ calls[2].file = P_exp_foobar
    /\ ~Holds(calls[1].before, P_exp_foobar)
    /\ calls[1].outcome = "created"
    /\ calls[2].outcome = "skipped_exists"

\* C2: with patch=false, a call whose existence query returns at least one
\* record returns without sending a POST or a PATCH and leaves the catalog
\* as it found it.
C2_ExistsNoWrite ==
    \A n \in 1..Len(calls) :
        ( /\ ~patch
          /\ FilesQuery(calls[n].before, calls[n].file) # {}
          /\ \E i \in ReqsOf(n, {"GET"}) : requests[i].status = "200" )
        => /\ ReqsOf(n, Writes) = {}
           /\ calls[n].outcome = "skipped_exists"
           /\ calls[n].after = calls[n].before
           /\ (n = Len(calls) => catalog = calls[n].before)

\* A call that found the record of its file.
C2_Witness ==
    /\ ~patch
    /\ Len(calls) >= 1
    /\ calls[1].file = P_exp_foo_x
    /\ FilesQuery(calls[1].before, P_exp_foo_x) # {}
    /\ calls[1].outcome = "skipped_exists"

\* C3: a call whose POST is answered 409 sends, with patch=true, exactly one
\* PATCH, to the url of the 409 answer's "file" field and with the body of
\* the POST (the full record); with patch=false it sends no PATCH and ends
\* without an error.
C3_ConflictPatch ==
    \A n \in 1..Len(calls) :
        \A i \in ReqsOf(n, {"POST"}) :
            (requests[i].status = "409" /\ Completed(n)) =>
                IF patch
                THEN /\ Cardinality(ReqsOf(n, {"PATCH"})) = 1
                     /\ \A j \in ReqsOf(n, {"PATCH"}) :
                          /\ j > i
                          /\ requests[j].url = requests[i].file
                          /\ requests[j].body = requests[i].body
                          /\ requests[j].body = generate(calls[n].file)
                          /\ \E r \in Conflicts(calls[n].before, generate(calls[n].file)) :
                                requests[j].url = FileUrl(r.uuid)
                ELSE /\ ReqsOf(n, {"PATCH"}) = {}
                     /\ calls[n].outcome = "skipped_conflict"

\* A 409 on a record made elsewhere, patched.
C3_Witness ==
    /\ patch
    /\ Len(calls) >= 1
    /\ calls[1].file = P_exp_foo_x
    /\ calls[1].before = {ForeignRecord(P_exp_foo_x, 1)}
    /\ calls[1].outcome = "patched"
    /\ \E i \in ReqsOf(1, {"POST"}) : requests[i].status = "409"

\* C4: with dryrun=true no POST and no PATCH is sent, whatever patch is.
C4_DryrunNoWrite ==
    dryrun => \A i \in 1..Len(requests) : requests[i].method \notin Writes

Success == {"created", "patched", "skipped_exists", "skipped_conflict"}

\* C5 as stated: for any fixed patch and dryrun, once a sync of a file has
\* succeeded, every later sync of that file sends no POST and no PATCH and
\* leaves the catalog unchanged.
C5_LaterSyncNoWrite ==
    \A n \in 1..Len(calls) : \A m \in (n + 1)..Len(calls) :
        ( /\ calls[n].file = calls[m].file
          /\ calls[n].outcome \in Success
          /\ Completed(m) )
        => /\ ReqsOf(m, Writes) = {}
           /\ calls[m].after = calls[m].before

\* C5 amended: once a sync of a file has succeeded, every later sync of that
\* file leaves the catalog unchanged; it sends no POST and no PATCH when
\* patch=false and the earlier sync created the record or found it by the
\* existence query.
C5_LaterSyncConverged ==
    \A n \in 1..Len(calls) : \A m \in (n + 1)..Len(calls) :
        ( /\ calls[n].file = calls[m].file
          /\ calls[n].outcome \in Success
          /\ Completed(m) )
        => /\ calls[m].after = calls[m].before
           /\ ( (~patch /\ calls[n].outcome \in {"created", "skipped_exists"})
                => /\ ReqsOf(m, Writes) = {}
                   /\ NoHttpError(m) => calls[m].outcome = "skipped_exists" )

\* Three syncs of one file under dryrun with patch off; the last two write
\* nothing.
C5_Witness ==
    /\ ~patch /\ dryrun
    /\ Len(calls) = 3
    /\ \A n \in 1..3 : calls[n].file = P_exp_foobar
    /\ calls[1].outcome = "created"
    /\ calls[2].outcome = "skipped_exists"
    /\ calls[3].outcome = "skipped_exists"

(***************************************************************************)
(* Claims about the traversal                                              *)
(***************************************************************************)

Finished(w) == w.st \in {"done", "raised"}

\* The scheduler has left its loop and every worker process has ended.
RunOver ==
    /\ r_pc \in {"done", "failed"}
    /\ \A k \in 1..Len(futures) : Finished(futures[k])

\* A worker took the path up in its loop.
Handled(path) == \E v \in visited : v.path = path

\* The path equals a denylist entry or lies under one.
Denied(path) ==
    \E d \in Range(r_denylist) : path = d \/ IsUnder(path, d)

\* The paths of the run that the workers were given or that wait for one.
PathsOfRun ==
    assigned \cup
    {q \in Range(queue) \cup UNION {Range(futures[k].child_paths) : k \in 1..Len(futures)} :
        ~Denied(q)}

\* C6: a catalog request that fails with an HTTP error other than 409 fails
\* that file only; every other path of the run -- the rest of the worker's
\* slice, the rest of the queue -- is still processed by the time the run is
\* over.
C6_HttpErrorFailsOneFile ==
    RunOver => \A path \in PathsOfRun : Handled(path)

\* C7: with every worker process eventually ending, the traversal eventually
\* stops, and whenever it has stopped -- its loop has ended or an exception
\* has left it -- the queue is empty and no worker is outstanding.
C7_Terminates ==
    /\ <>(r_pc \in {"done", "failed"})
    /\ [](r_pc \in {"done", "failed"} => queue = <<>> /\ futures = <<>>)

\* C8: no two outstanding workers hold the same path.
C8_DisjointSlices ==
    \A j \in 1..Len(futures) : \A k \in (j + 1)..Len(futures) :
        (futures[j].st = "running" /\ futures[k].st = "running")
        => Range(futures[j].paths) \cap Range(futures[k].paths) = {}

\* C9: no path that equals a denylist entry or lies under one is indexed or
\* has its children listed, and once the run over /data/exp with
\* /data/exp/foo denylisted has ended, the sibling /data/exp/foobar has been
\* indexed.
C9_DeniedNeverProcessed ==
    /\ \A v \in visited : v.what \in {"index", "list"} => ~Denied(v.path)
    /\ ( /\ r_pc = "done"
         /\ r_denylist = <<P_exp_foo>>
         /\ \E v \in visited : v.path = P_exp /\ v.what = "list" )
       => \E v \in visited : v.path = P_exp_foobar /\ v.what = "index"

\* The symbolic links among the given paths.
Symlinks(paths) == {q \in Range(paths) : Lstat(q) = "symlink"}

\* C13: no socket, FIFO, device or symlink is indexed (or listed), no
\* symlink is among the children a worker returns from a listing, and the
\* queue never gains a symlink: those in it were starting paths.
C13_SpecialNeverIndexed ==
    /\ [](\A v \in visited :
            v.what \in {"index", "list"} => Lstat(v.path) \in {"file", "dir"})
    /\ [](\A i \in 1..Len(requests) :
            requests[i].method \in Writes =>
               Lstat(requests[i].body.logical_name) = "file")
    /\ [](\A k \in 1..Len(futures) : Symlinks(futures[k].child_paths) = {})
    /\ [][Symlinks(queue') \subseteq Symlinks(queue)]_vars

\* /data/exp, which holds the symlink baz, and /data/exp/foo, which holds
\* the FIFO baz, were listed; the FIFO was skipped, the symlink was never
\* taken up, and the run has ended.
C13_Witness ==
    /\ r_pc = "done"
    /\ \E v \in visited : v.path = P_exp /\ v.what = "list"
    /\ \E v \in visited : v.path = P_exp_foo /\ v.what = "list"
    /\ \E v \in visited : v.path = P_exp_foo_baz /\ v.what = "skip"
    /\ \E v \in visited : v.path = P_exp_foobar /\ v.what = "index"
    /\ ~Handled(P_exp_baz)

\* The write requests among the given ones.
WritesIn(reqs) == {i \in 1..Len(reqs) : reqs[i].method \in Writes}

\* C12: a path that has vanished, cannot be read or has the wrong type when
\* a worker takes it up is skipped: the step sends no POST and no PATCH, the
\* worker keeps running and moves on to the next path of its slice; and a
\* run without HTTP errors ends by its loop with every path handled.
C12_RaceSkipped ==
    /\ [][\A v \in visited' \ visited :
            v.what = "skip" =>
              /\ WritesIn(requests') = WritesIn(requests)
              /\ \E k \in 1..Len(futures) :
                    /\ futures[k].id = v.by
                    /\ futures'[k].st = "running"
                    /\ futures'[k].i = futures[k].i + 1]_vars
    /\ []((RunOver /\ faults = 0) =>
            (r_pc = "done" /\ \A path \in PathsOfRun : Handled(path)))

\* Worker 1 skipped /data/exp/foo/x, then indexed /data/exp/foobar of the
\* same slice and created its record, and the run has ended.
C12_Witness ==
    /\ racy
    /\ r_pc = "done"
    /\ [path |-> P_exp_foo_x, what |-> "skip", by |-> 1] \in visited
    /\ [path |-> P_exp_foobar, what |-> "index", by |-> 1] \in visited
    /\ \A i \in 1..Len(requests) :
          requests[i].method \in Writes =>
             requests[i].body.logical_name # P_exp_foo_x
    /\ \E i \in 1..Len(requests) :
          /\ requests[i].who = 1
          /\ requests[i].method = "POST"
          /\ requests[i].status = "201"
          /\ requests[i].body.logical_name = P_exp_foobar

(***************************************************************************)
(* The traverser: resources/path_collector/traverser.py and                *)
(* resources/all_paths/traverser.py                                        *)
(***************************************************************************)

P_exp_foo_bar == Abs(<<n_data, n_exp, n_foo, n_bar>>)
P_exp_foo_bar_x == Abs(<<n_data, n_exp, n_foo, n_bar, n_x>>)
P_exp_bar == Abs(<<n_data, n_exp, n_bar>>)
P_exp_bar_x == Abs(<<n_data, n_exp, n_bar, n_x>>)

\* The tree a traverser walks; it does not change during the walk.
TravTree ==
    Tree @@ (P_exp_foo_bar :> "dir") @@ (P_exp_foo_bar_x :> "file")
    @@ (P_exp_bar :> "dir") @@ (P_exp_bar_x :> "file")

\* os.scandir(path): the entries directly in the directory.
scandir(path) ==
    SortSet({c \in DOMAIN TravTree :
                /\ IsUnder(c, path)
                /\ \A i \in (Len(path) + 2)..Len(c) : c[i] # SEP})

\* traverser.py is_excluded_path
is_excluded_path(path, excluded_paths) ==
    \E i \in 1..Len(excluded_paths) :
        \/ path = excluded_paths[i]
        \/ commonpath(path, excluded_paths[i]) = excluded_paths[i]

\* The S_ISLNK / S_ISSOCK / S_ISFIFO / S_ISBLK / S_ISCHR test of the scan
NonProcessable(mode) == mode \in {"symlink", "socket", "fifo", "block", "char"}

\* The path handed to is_excluded_path for an entry: path_collector's
\* scan_directory passes dir_entry.path, all_paths' traverse passes `path`,
\* the directory being scanned.
ExcludeArg(variant, path, entry) ==
    IF variant = "all_paths" THEN path ELSE entry

\* scan_directory / traverse: the sub-directories returned and the lines
\* printed, for the directory `path`.
scan_directory(variant, path, excluded_paths) ==
    LET kept == SelectSeq(scandir(path), LAMBDA e :
                    /\ ~NonProcessable(TravTree[e])
                    /\ ~is_excluded_path(ExcludeArg(variant, path, e), excluded_paths))
    IN  [dirs |-> SelectSeq(kept, LAMBDA e : TravTree[e] = "dir"),
         printed |-> SelectSeq(kept, LAMBDA e : TravTree[e] = "file")]

\* The --exclude lists tried.
ExcludeChoices ==
    {<<>>, <<P_exp_foo>>, <<P_exp_foobar>>, <<P_exp_foo_bar>>, <<P_exp_foo_x>>,
     <<P_exp_foo_bar, P_exp_foobar>>}

\* The PATH arguments tried: one root, two roots apart, and a root given
\* with a directory under it.
RootChoices ==
    {<<P_exp>>, <<P_exp_foo, P_exp_bar>>, <<P_exp, P_exp_foo>>}

TravInit ==
    /\ DenyIdle
    /\ SyncIdle
    /\ RunIdle
    /\ CollIdle
    /\ ParseIdle
    /\ MgrIdle
    /\ SimIdle
    /\ t_variant \in {"path_collector", "all_paths"}
    /\ t_exclude \in ExcludeChoices
    /\ t_pc = "top"
    /\ t_paths \in RootChoices
    /\ t_dirs = t_paths
    /\ t_futures = <<>>
    /\ t_stdout = <<>>
    /\ t_submitted = <<>>

\* "while futures or dirs" succeeds and every directory of dirs is submitted.
TravSubmit ==
    /\ t_pc = "top"
    /\ t_futures # <<>> \/ t_dirs # <<>>
    /\ t_futures' = t_futures \o
          [j \in 1..Len(t_dirs) |-> [path |-> t_dirs[j], done |-> FALSE, dirs |-> <<>>]]
    /\ t_submitted' = t_submitted \o t_dirs
    /\ t_pc' = "wait"
    /\ UNCHANGED <<travOthers, t_variant, t_exclude, t_dirs, t_stdout, t_paths>>

\* A worker process runs one submitted scan.
TravScan(k) ==
    /\ k \in 1..Len(t_futures)
    /\ ~t_futures[k].done
    /\ LET r == scan_directory(t_variant, t_futures[k].path, t_exclude) IN
        /\ t_stdout' = t_stdout \o r.printed
        /\ t_futures' = [t_futures EXCEPT ![k] = [@ EXCEPT !.done = TRUE, !.dirs = r.dirs]]
    /\ UNCHANGED <<travOthers, t_variant, t_exclude, t_pc, t_dirs, t_submitted,
                   t_paths>>

\* The position in futures of the future the main loop takes next:
\* path_collector takes the first one that is done, all_paths waits for
\* futures[0].
NextFinished ==
    IF t_variant = "all_paths" THEN 1
    ELSE CHOOSE k \in 1..Len(t_futures) :
            t_futures[k].done /\ \A j \in 1..(k - 1) : ~t_futures[j].done

\* The main loop removes a finished future and takes its directories.
TravCollect ==
    /\ t_pc = "wait"
    /\ \E k \in 1..Len(t_futures) : t_futures[k].done
    /\ t_futures[NextFinished].done
    /\ t_dirs' = t_futures[NextFinished].dirs
    /\ t_futures' = SubSeq(t_futures, 1, NextFinished - 1)
                    \o SubSeq(t_futures, NextFinished + 1, Len(t_futures))
    /\ t_pc' = "top"
    /\ UNCHANGED <<travOthers, t_variant, t_exclude, t_stdout, t_submitted,
                   t_paths>>

\* "while futures or dirs" fails.
TravExit ==
    /\ t_pc = "top"
    /\ t_futures = <<>> /\ t_dirs = <<>>
    /\ t_pc' = "done"
    /\ UNCHANGED <<travOthers, t_variant, t_exclude, t_dirs, t_futures, t_stdout,
                   t_submitted, t_paths>>

TravWorker == \E k \in 1..Len(t_futures) : TravScan(k)

TravNext == TravSubmit \/ TravWorker \/ TravCollect \/ TravExit

SpecTrav == TravInit /\ [][TravNext]_vars

(***************************************************************************)
(* Claims about the traverser                                              *)
(***************************************************************************)

Excluded(path) ==
    \E i \in 1..Len(t_exclude) : path = t_exclude[i] \/ IsUnder(path, t_exclude[i])

\* C11: the traverser never prints a path that equals an excluded path or
\* lies under one, be the excluded path a directory or a regular file, and
\* when it has finished every other regular file under a root is printed.
C11_ExcludedNeverPrinted ==
    /\ \A i \in 1..Len(t_stdout) : ~Excluded(t_stdout[i])
    /\ t_pc = "done" =>
          \A f \in DOMAIN TravTree :
             (/\ TravTree[f] = "file"
              /\ \E r \in Range(t_paths) : IsUnder(f, r)
              /\ ~Excluded(f))
             => f \in Range(t_stdout)

(***************************************************************************)
(* The path collector: resources/path_collector/path_collector.py          *)
(***************************************************************************)

\* os.stat(path).st_size of the paths that exist; /foo does not exist.
StSize ==
    (P_exp_foo_x :> 2) @@ (P_exp_foobar :> 1) @@ (P_exp_bar_x :> 0)

\* os.stat that finds every path.
os_stat_lenient(path) ==
    [ok |-> TRUE, st_size |-> IF path \in DOMAIN StSize THEN StSize[path] ELSE 0]

\* os.stat(path): it raises FileNotFoundError (ok is FALSE) for a path that
\* does not exist.
os_stat(path) ==
    IF path \in DOMAIN StSize THEN [ok |-> TRUE, st_size |-> StSize[path]]
    ELSE [ok |-> FALSE, st_size |-> 0]

\* The lines a traverse file is made of.
TraverseLines == DOMAIN StSize \cup {P_foo}

\* Most lines of a traverse file.
MaxLines == 3

\* Largest --chunk-size, in bytes.
MaxChunkSize == 3

\* The sequences over S of at most n elements
SeqsUpTo(S, n) == UNION {[1..k -> S] : k \in 0..n}

LOG == "path_collector.log"
ARGV == "argv.txt"
CHUNKS_DIR == "traverse-chunks"

\* main is run from the shell, or write_all_filepaths_to_files is called
\* directly; the traverse staging directory is absent, empty, or left over
\* from an earlier run with its log file.
CollInit ==
    /\ DenyIdle
    /\ SyncIdle
    /\ RunIdle
    /\ TravIdle
    /\ ParseIdle
    /\ MgrIdle
    /\ SimIdle
    /\ c_pc \in {"main", "write_all"}
    /\ c_force \in (IF c_pc = "main" THEN BOOLEAN ELSE {FALSE})
    /\ c_has_arg \in BOOLEAN
    /\ c_chunk_size \in 0..MaxChunkSize
    /\ c_lines \in SeqsUpTo(TraverseLines, MaxLines)
    /\ c_tsd \in {Absent, Dir({}), Dir({LOG})}
    /\ c_error = ""
    /\ c_pos = 0
    /\ c_id = 0
    /\ c_queue = <<>>
    /\ c_queue_f_size = 0
    /\ c_chunks = <<>>
    /\ c_archive = <<>>
    /\ c_traverse_file = TRUE

Fail(error) == c_pc' = "failed" /\ c_error' = error

\* main, up to the call of write_all_filepaths_to_files: with --force the
\* log file is moved out of the directory, the directory is removed and made
\* again and the log file moved back; without it the directory must not
\* exist and is made.  The logging FileHandler then opens the log file.
CollMain ==
    /\ c_pc = "main"
    /\ IF c_force
       THEN IF LOG \notin c_tsd.entries
            THEN Fail("FileNotFoundError") /\ UNCHANGED c_tsd
            ELSE c_tsd' = Dir({LOG}) /\ c_pc' = "write_all" /\ UNCHANGED c_error
       ELSE IF c_tsd.exists
            THEN Fail("FileExistsError") /\ UNCHANGED c_tsd
            ELSE c_tsd' = Dir({LOG}) /\ c_pc' = "write_all" /\ UNCHANGED c_error
    /\ UNCHANGED <<collOthers, c_force, c_has_arg, c_chunk_size, c_lines, c_pos,
                   c_id, c_queue, c_queue_f_size, c_chunks, c_archive,
                   c_traverse_file>>

\* write_all_filepaths_to_files, up to _chunk: the directory must exist;
\* argv.txt is written.
CollWriteAll ==
    /\ c_pc = "write_all"
    /\ IF ~c_tsd.exists
       THEN Fail("FileNotFoundError") /\ UNCHANGED c_tsd
       ELSE /\ c_tsd' = Dir(c_tsd.entries \cup {ARGV})
            /\ c_pc' = "chunk"
            /\ UNCHANGED c_error
    /\ UNCHANGED <<collOthers, c_force, c_has_arg, c_chunk_size, c_lines, c_pos,
                   c_id, c_queue, c_queue_f_size, c_chunks, c_archive,
                   c_traverse_file>>

\* _chunk_it(i, chunk_lines)
chunk_it(i, chunk_lines) == Append(c_chunks, [id |-> i, lines |-> chunk_lines])

\* _chunk, up to its loop: mkdir of the chunks directory, and with
\* chunk_size 0 the copy of the traverse file to chunk-0.
CollChunkBegin ==
    /\ c_pc = "chunk"
    /\ c_tsd' = Dir(c_tsd.entries \cup {CHUNKS_DIR})
    /\ IF c_chunk_size = 0
       THEN /\ c_chunks' = chunk_it(0, c_lines)
            /\ c_pc' = "archive"
            /\ UNCHANGED <<c_pos, c_id, c_queue, c_queue_f_size>>
       ELSE /\ c_pc' = "loop"
            /\ c_pos' = 1
            /\ c_id' = 0
            /\ c_queue' = <<>>
            /\ c_queue_f_size' = 0
            /\ UNCHANGED c_chunks
    /\ UNCHANGED <<collOthers, c_force, c_has_arg, c_chunk_size, c_lines, c_error,
                   c_archive, c_traverse_file>>

\* A size test that waits until the threshold is exceeded.
TimeToChunk_exceeded(queue_f_size, chunk_size) == queue_f_size > chunk_size

\* The size test of the loop of _chunk
TimeToChunk(queue_f_size, chunk_size) == queue_f_size >= chunk_size

\* The lines left over are forgotten.
HasLeftover_never(q) == FALSE

\* "if queue:" after the loop of _chunk
HasLeftover(q) == q # <<>>

\* One pass of "for path in traverse_f".
CollChunkLine ==
    /\ c_pc = "loop"
    /\ c_pos <= Len(c_lines)
    /\ LET path == c_lines[c_pos]
           f_size == os_stat(path).st_size
       IN
        IF ~os_stat(path).ok
        THEN \* os.stat raises
             /\ Fail("FileNotFoundError")
             /\ c_queue' = Append(c_queue, path)
             /\ UNCHANGED <<c_pos, c_id, c_queue_f_size, c_chunks>>
        ELSE /\ c_pos' = c_pos + 1
             /\ UNCHANGED <<c_pc, c_error>>
             /\ IF TimeToChunk(c_queue_f_size + f_size, c_chunk_size)
                THEN /\ c_id' = c_id + 1
                     /\ c_chunks' = chunk_it(c_id + 1, Append(c_queue, path))
                     /\ c_queue' = <<>>
                     /\ c_queue_f_size' = 0
                ELSE /\ c_queue' = Append(c_queue, path)
                     /\ c_queue_f_size' = c_queue_f_size + f_size
                     /\ UNCHANGED <<c_id, c_chunks>>
    /\ UNCHANGED <<collOthers, c_force, c_has_arg, c_chunk_size, c_lines, c_tsd,
                   c_archive, c_traverse_file>>

\* The traverse file is read: "chunk whatever is left".
CollChunkRest ==
    /\ c_pc = "loop"
    /\ c_pos > Len(c_lines)
    /\ IF HasLeftover(c_queue)
       THEN /\ c_id' = c_id + 1
            /\ c_chunks' = chunk_it(c_id + 1, c_queue)
       ELSE UNCHANGED <<c_id, c_chunks>>
    /\ c_pc' = "archive"
    /\ UNCHANGED <<collOthers, c_force, c_has_arg, c_chunk_size, c_lines, c_tsd,
                   c_error, c_pos, c_queue, c_queue_f_size, c_archive,
                   c_traverse_file>>

\* _archive: the traverse file is copied (--traverse-file) or moved to the
\* archive file in the staging directory.
CollArchive ==
    /\ c_pc = "archive"
    /\ c_archive' = <<c_lines>>
    /\ c_traverse_file' = c_has_arg
    /\ c_pc' = "done"
    /\ UNCHANGED <<collOthers, c_force, c_has_arg, c_chunk_size, c_lines, c_tsd,
                   c_error, c_pos, c_id, c_queue, c_queue_f_size, c_chunks>>

CollNext ==
    \/ CollMain \/ CollWriteAll \/ CollChunkBegin \/ CollChunkLine
    \/ CollChunkRest \/ CollArchive

SpecColl == CollInit /\ [][CollNext]_vars

\* Every step of the collector that can be taken is taken.
SpecCollFair == SpecColl /\ WF_vars(CollNext)

(***************************************************************************)
(* Claims about the path collector                                         *)
(***************************************************************************)

\* How often x occurs in the sequence
Count(seq, x) == Cardinality({i \in 1..Len(seq) : seq[i] = x})

\* The lines of all chunk files, one file after the other
RECURSIVE AllChunkLines(_)
AllChunkLines(chunks) ==
    IF chunks = <<>> THEN <<>>
    ELSE Head(chunks).lines \o AllChunkLines(Tail(chunks))

\* The aggregate file size of the lines
RECURSIVE AggregateSize(_)
AggregateSize(lines) ==
    IF lines = <<>> THEN 0
    ELSE os_stat(Head(lines)).st_size + AggregateSize(Tail(lines))

\* No line of the traverse file names a path that does not exist.
AllPathsExist == \A i \in 1..Len(c_lines) : c_lines[i] \in DOMAIN StSize

Chunked == c_pc \in {"archive", "done"}

\* C14: once a traverse file whose paths all exist is chunked, the lines of
\* all chunk files together are, as a multiset, the lines of the traverse
\* file; with no line repeated in the traverse file, no line is in two
\* chunks.
C14_ChunksPartitionTraverse ==
    (Chunked /\ AllPathsExist) =>
        /\ \A x \in TraverseLines :
              Count(AllChunkLines(c_chunks), x) = Count(c_lines, x)
        /\ (\A x \in TraverseLines : Count(c_lines, x) <= 1) =>
              \A j \in 1..Len(c_chunks) : \A k \in (j + 1)..Len(c_chunks) :
                 Range(c_chunks[j].lines) \cap Range(c_chunks[k].lines) = {}

\* Three different paths were chunked into two chunk files, the second one
\* holding what was left over.
C14_Witness ==
    /\ c_pc = "done"
    /\ c_chunk_size > 0
    /\ Len(c_lines) = 3
    /\ Cardinality(Range(c_lines)) = 3
    /\ Len(c_chunks) = 2
    /\ AggregateSize(c_chunks[2].lines) < c_chunk_size

\* C15: with chunk_size > 0, every chunk file but the last has an aggregate
\* file size of at least chunk_size, and without its last line an aggregate
\* file size below chunk_size.
C15_ChunkThreshold ==
    c_chunk_size > 0 =>
        \A k \in 1..(Len(c_chunks) - 1) :
            /\ AggregateSize(c_chunks[k].lines) >= c_chunk_size
            /\ AggregateSize(SubSeq(c_chunks[k].lines, 1, Len(c_chunks[k].lines) - 1))
                  < c_chunk_size

\* Chunking is over with a first chunk of two lines that reached the
\* threshold with its second line, and a later chunk.
C15_Witness ==
    /\ Chunked
    /\ c_chunk_size > 0
    /\ Len(c_chunks) >= 2
    /\ Len(c_chunks[1].lines) = 2
    /\ AggregateSize(c_chunks[1].lines) >= c_chunk_size

\* C16: when write_all_filepaths_to_files is given a traverse file with a
\* line that names no existing path, and chunk_size > 0, the call never
\* gets to the archive file: it ends with an error, and argv.txt and the
\* chunks directory it had made are still there.
C16_MissingPathFails ==
    (c_chunk_size > 0 /\ ~AllPathsExist) =>
        /\ ~Chunked
        /\ c_archive = <<>>
        /\ (c_pc = "failed" /\ ARGV \in c_tsd.entries) =>
              (c_error = "FileNotFoundError" /\ CHUNKS_DIR \in c_tsd.entries)
        /\ c_pc = "loop" => {ARGV, CHUNKS_DIR} \subseteq c_tsd.entries

\* The call failed on the third line, after a chunk file was written.
C16_Witness ==
    /\ c_pc = "failed"
    /\ c_error = "FileNotFoundError"
    /\ c_chunk_size > 0
    /\ c_pos = 3
    /\ c_lines[3] \notin DOMAIN StSize
    /\ c_chunks # <<>>
    /\ c_archive = <<>>
    /\ {ARGV, CHUNKS_DIR} \subseteq c_tsd.entries

\* C17: path_collector.py started with --force runs to its end whether the
\* traverse staging directory exists or not; started without --force it
\* runs to its end when the directory does not exist and fails when it
\* does.  (The traverse file is one that can be chunked.)
C17_Force ==
    /\ (c_pc = "main" /\ c_force /\ AllPathsExist) => <>(c_pc = "done")
    /\ (c_pc = "main" /\ ~c_force /\ ~c_tsd.exists /\ AllPathsExist)
          => <>(c_pc = "done")
    /\ (c_pc = "main" /\ ~c_force /\ c_tsd.exists) => <>(c_pc = "failed")

(***************************************************************************)
(* Filenames and filename patterns (indexer/metadata/metadata.py)          *)
(*                                                                         *)
(* A filename is a sequence of tokens.  A token is a piece of literal text *)
(* named by its tag, followed by the run of digits num (<<>> when the      *)
(* text carries no digits): "_data_Run00130567" is the token               *)
(* Tok("_data_Run", <<"0", "5">>) of a shorter number.  A pattern is the   *)
(* sequence of the elements of its regular expression; an element stands   *)
(* for a literal and the group that follows it, and names the tokens the   *)
(* literal can end in.                                                     *)
(***************************************************************************)

Tok(tag, num) == [tag |-> tag, num |-> num]

\* The tokens whose text begins with "_".
UnderscoreTags ==
    {"_IC", "_data_Run", "_PhysicsFiltering_Run", "_All_Run", "_Run",
     "_Subrun", "_Part", "_NewPart", "_part", "_", "_SR", "_to_", "_new",
     "_GCD"}
\* The tokens whose text ends in "Run" and digits, and in "_Run" and digits.
RunTags == {"_data_Run", "_PhysicsFiltering_Run", "_All_Run", "_Run"}

\* An element of a pattern: a literal that ends a token of one of `tags`,
\* and the named group (\d+) after it that captures the token's digits
\* ("" when the digits are not captured by a named group).
\*   gap:  ".*" precedes the literal;
\*   opt:  the element is wrapped in "(...)?";
\*   peek: the element is the first character of the next token, which the
\*         elements after it read again.
Lit(tags) ==
    [tags |-> tags, group |-> "", gap |-> FALSE, opt |-> FALSE, peek |-> FALSE]
Grp(tags, group) == [Lit(tags) EXCEPT !.group = group]
Gap(e) == [e EXCEPT !.gap = TRUE]
Opt(e) == [e EXCEPT !.opt = TRUE]
Peek(tags) == [Lit(tags) EXCEPT !.peek = TRUE]
\* "\." at the end of every pattern.
Dot == Lit({".year", ".i3", ".tar"})

MaxOf(S) == CHOOSE x \in S : \A y \in S : y <= x
MinOf(S) == CHOOSE x \in S : \A y \in S : x <= y

\* An empty dict.
EmptyDict == [k \in {} |-> <<>>]
NoMatch == [matched |-> FALSE, groupdict |-> EmptyDict]

\* re.match(p, filename) from token `pos` on, and match.groupdict().  A
\* greedy ".*" settles on the last place from which the rest matches.
RECURSIVE MatchFrom(_, _, _)
MatchFrom(elems, toks, pos) ==
    IF elems = <<>> THEN [matched |-> TRUE, groupdict |-> EmptyDict]
    ELSE
        LET e == Head(elems)
            After(s) ==
                MatchFrom(Tail(elems), toks, IF e.peek THEN s ELSE s + 1)
            starts == IF e.gap THEN pos..Len(toks) ELSE {pos}
            ok == {s \in starts :
                      /\ s <= Len(toks)
                      /\ toks[s].tag \in e.tags
                      /\ After(s).matched}
        IN  IF ok # {}
            THEN LET s == MaxOf(ok)
                     m == After(s)
                 IN  [matched |-> TRUE,
                      groupdict |->
                          IF e.group = "" THEN m.groupdict
                          ELSE (e.group :> toks[s].num) @@ m.groupdict]
            ELSE IF e.opt THEN MatchFrom(Tail(elems), toks, pos)
            ELSE NoMatch

re_match(p, filename) == MatchFrom(p, filename, 1)

\* '"?P<run>" in p'
HasRunGroup(p) == \E i \in 1..Len(p) : p[i].group = "run"

\* int() of a run of digits.
DigitValue ==
    [c \in {"0", "1", "2", "3", "4", "5", "6", "7", "8", "9"} |->
        CASE c = "0" -> 0 [] c = "1" -> 1 [] c = "2" -> 2 [] c = "3" -> 3
          [] c = "4" -> 4 [] c = "5" -> 5 [] c = "6" -> 6 [] c = "7" -> 7
          [] c = "8" -> 8 [] c = "9" -> 9]

RECURSIVE int(_)
int(digits) ==
    IF digits = <<>> THEN 0
    ELSE 10 * int(SubSeq(digits, 1, Len(digits) - 1))
            + DigitValue[digits[Len(digits)]]

\* An Optional[int]: None, or the integer.
Some(x) == <<x>>

\* IceCubeSeason.SEASONS, the season names as character sequences.
SEASONS ==
    <<[year |-> 2005, name |-> <<"I", "C", "s", "t", "r", "i", "n", "g", "9">>],
      [year |-> 2006, name |-> <<"I", "C", "9">>],
      [year |-> 2007, name |-> <<"I", "C", "2", "2">>],
      [year |-> 2008, name |-> <<"I", "C", "4", "0">>],
      [year |-> 2009, name |-> <<"I", "C", "5", "9">>],
      [year |-> 2010, name |-> <<"I", "C", "7", "9">>],
      [year |-> 2011, name |-> <<"I", "C", "8", "6", "-", "1">>],
      [year |-> 2012, name |-> <<"I", "C", "8", "6", "-", "2">>],
      [year |-> 2013, name |-> <<"I", "C", "8", "6", "-", "3">>],
      [year |-> 2014, name |-> <<"I", "C", "8", "6", "-", "4">>],
      [year |-> 2015, name |-> <<"I", "C", "8", "6", "-", "5">>],
      [year |-> 2016, name |-> <<"I", "C", "8", "6", "-", "6">>],
      [year |-> 2017, name |-> <<"I", "C", "8", "6", "-", "7">>],
      [year |-> 2018, name |-> <<"I", "C", "8", "6", "-", "8">>],
      [year |-> 2019, name |-> <<"I", "C", "8", "6", "-", "9">>],
      [year |-> 2020, name |-> <<"I", "C", "8", "6", "-", "1", "0">>]>>

Raised(error) == [status |-> error, value |-> <<>>]
Returned(value) == [status |-> "ok", value |-> value]

\* IceCubeSeason.name_to_year
name_to_year(name) ==
    IF name = <<>> THEN Returned(None)
    ELSE LET found == {i \in 1..Len(SEASONS) : SEASONS[i].name = name}
         IN  IF found # {}
             THEN Returned(Some(SEASONS[CHOOSE i \in found : TRUE].year))
             ELSE Raised("Exception")

\* The body of "if match:" in parse_year_run_subrun_part.
ParsedGroups(values) ==
    LET Has(g) == g \in DOMAIN values
        year == IF Has("ic_strings")
                THEN name_to_year(<<"I", "C">> \o values["ic_strings"])
                ELSE IF Has("year") THEN Returned(Some(int(values["year"])))
                ELSE Returned(None)
        run == IF Has("run") THEN int(values["run"]) ELSE 0
        subrun == IF Has("subrun") THEN int(values["subrun"]) ELSE 0
        part == IF Has("part") THEN int(values["part"]) ELSE 0
    IN  IF year.status # "ok" THEN year
        ELSE Returned(<<year.value, run, subrun, part>>)

\* The mutant: a pattern that matches does not end the loop, so that the
\* last pattern that matches decides.
RECURSIVE parse_year_run_subrun_part_last(_, _)
parse_year_run_subrun_part_last(patterns, filename) ==
    IF patterns = <<>> THEN Raised("ValueError")
    ELSE LET p == Head(patterns)
             match == re_match(p, filename)
             later == parse_year_run_subrun_part_last(Tail(patterns), filename)
         IN  IF ~HasRunGroup(p) THEN Raised("Exception")
             ELSE IF match.matched /\ later.status = "ValueError"
                  THEN ParsedGroups(match.groupdict)
             ELSE later

\* I3FileMetadata.parse_year_run_subrun_part
RECURSIVE parse_year_run_subrun_part(_, _)
parse_year_run_subrun_part(patterns, filename) ==
    IF patterns = <<>> THEN Raised("ValueError")
    ELSE LET p == Head(patterns)
             match == re_match(p, filename)
         IN  IF ~HasRunGroup(p) THEN Raised("Exception")
             ELSE IF match.matched THEN ParsedGroups(match.groupdict)
             ELSE parse_year_run_subrun_part(Tail(patterns), filename)

\* <class>.FILENAME_PATTERNS, by processing level.
FILENAME_PATTERNS(kind) ==
    CASE kind = "L2" ->
          << \* .*\.(?P<year>20\d{2}).*_data_Run(?P<run>\d+)_Subrun(?P<subrun>\d+)_(?P<part>\d+)\.
             <<Gap(Grp({".year"}, "year")), Gap(Grp({"_data_Run"}, "run")),
               Grp({"_Subrun"}, "subrun"), Grp({"_"}, "part"), Dot>>,
             \* .*_PhysicsFiltering_Run(?P<run>\d+)_Subrun(?P<subrun>\d+)_(?P<part>\d+)(_new\d+)?\.
             <<Gap(Grp({"_PhysicsFiltering_Run"}, "run")), Grp({"_Subrun"}, "subrun"),
               Grp({"_"}, "part"), Opt(Lit({"_new"})), Dot>>,
             \* .*\.(?P<year>20\d{2})_.*data_Run(?P<run>\d+)_Subrun(?P<part>\d+)\.
             <<Gap(Grp({".year"}, "year")), Peek(UnderscoreTags),
               Gap(Grp({"_data_Run"}, "run")), Grp({"_Subrun"}, "part"), Dot>>,
             \* .*\.(?P<year>20\d{2})_data_Run(?P<run>\d+)_Part(?P<part>\d+)\.
             <<Gap(Grp({".year"}, "year")), Grp({"_data_Run"}, "run"),
               Grp({"_Part"}, "part"), Dot>>,
             \* .*_IC(?P<ic_strings>\d+)_data_Run(?P<run>\d+)_(New)?Part(?P<part>\d+)\.
             <<Gap(Grp({"_IC"}, "ic_strings")), Grp({"_data_Run"}, "run"),
               Grp({"_Part", "_NewPart"}, "part"), Dot>>,
             \* .*_All_Run(?P<run>\d+)_[Pp]art(?P<part>\d+)\.
             <<Gap(Grp({"_All_Run"}, "run")), Grp({"_Part", "_part"}, "part"), Dot>> >>
      [] kind = "PFFilt" ->
          << \* .*PFFilt_.*_Run(?P<run>\d+)_Subrun(?P<subrun>\d+)_(?P<part>\d+)\.
             <<Gap(Lit({"PFFilt"})), Gap(Grp(RunTags, "run")),
               Grp({"_Subrun"}, "subrun"), Grp({"_"}, "part"), Dot>>,
             \* PFFilt_.*_Run(?P<run>\d+)_(?P<part>\d+)\.
             <<Lit({"PFFilt"}), Gap(Grp(RunTags, "run")), Grp({"_"}, "part"), Dot>> >>
      [] kind = "PFDST" ->
          << \* .*_Run(?P<run>\d+)_Subrun(?P<subrun>\d+)_(?P<part>\d+)\.
             <<Gap(Grp(RunTags, "run")), Grp({"_Subrun"}, "subrun"),
               Grp({"_"}, "part"), Dot>> >>
      [] kind = "PFRaw" ->
          << \* .*_Run(?P<run>\d+)_Subrun(?P<subrun>\d+)_(?P<part>\d+)\.
             <<Gap(Grp(RunTags, "run")), Grp({"_Subrun"}, "subrun"),
               Grp({"_"}, "part"), Dot>>,
             \* .*_Run(?P<run>\d+)_Subrun(?P<part>\d+)\.
             <<Gap(Grp(RunTags, "run")), Grp({"_Subrun"}, "part"), Dot>>,
             \* .*_Run(?P<run>\d+)_(?P<part>\d+)\.
             <<Gap(Grp(RunTags, "run")), Grp({"_"}, "part"), Dot>>,
             \* .*_Run(?P<run>\d+)_SR(?P<part>\d+)_\d+\.
             <<Gap(Grp(RunTags, "run")), Grp({"_SR"}, "part"), Lit({"_"}), Dot>>,
             \* .*_Run(?P<run>\d+)_\d+_to_\d+\.
             <<Gap(Grp(RunTags, "run")), Lit({"_"}), Lit({"_to_"}), Dot>>,
             \* .*DebugData.*_Run(?P<run>\d+)\.
             <<Gap(Lit({"DebugData-"})), Gap(Grp(RunTags, "run")), Dot>>,
             \* .*EvtMon.*_Run(?P<run>\d+)\.
             <<Gap(Lit({"EvtMon"})), Gap(Grp(RunTags, "run")), Dot>> >>

\* The base filename patterns of is_valid_filename:
\*   .*<kind>.*Run(\d+)_.*\d<ext>    (L2, PFFilt, PFDST)
\*   .*<kind>.*Run\d+.*\d<ext>       (PFRaw, underscore = FALSE)
\* The digit before <ext> ends a token at or after the one the underscore
\* begins; without the underscore it may be the last digit of the run
\* number itself, when that has a digit to spare.
BasePattern(kind, underscore, ext, toks) ==
    \E i, j, k \in 1..Len(toks) :
        /\ i < j
        /\ toks[i].tag = kind
        /\ toks[j].tag \in RunTags
        /\ j <= k
        /\ toks[k].num # <<>>
        /\ k + 1 <= Len(toks)
        /\ toks[k + 1].tag = ext
        /\ IF underscore
           THEN j < k /\ toks[j + 1].tag \in UnderscoreTags
           ELSE j = k => Len(toks[j].num) >= 2

\* <class>.is_valid_filename, by processing level.
is_valid_filename(kind, filename) ==
    CASE kind = "L2" -> BasePattern("Level2", TRUE, ".i3", filename)
      [] kind = "PFFilt" -> BasePattern("PFFilt", TRUE, ".tar", filename)
      [] kind = "PFDST" -> BasePattern("PFDST", TRUE, ".tar", filename)
      [] kind = "PFRaw" -> BasePattern("PFRaw", FALSE, ".tar", filename)

\* The filenames of the model, with shortened numbers.
Names ==
    [\* Level2_IC86.2017_data_Run05_Subrun00_07.i3.zst
     L2 |->
        <<Tok("Level2", <<>>), Tok("_IC", <<"8", "6">>),
          Tok(".year", <<"2", "0", "1", "7">>),
          Tok("_data_Run", <<"0", "5">>), Tok("_Subrun", <<"0", "0">>),
          Tok("_", <<"0", "7">>), Tok(".i3", <<>>)>>,
     \* Level2_PhysicsFiltering_Run05_Subrun00_01_new2.i3
     L2_new |->
        <<Tok("Level2", <<>>),
          Tok("_PhysicsFiltering_Run", <<"0", "5">>),
          Tok("_Subrun", <<"0", "0">>), Tok("_", <<"0", "1">>),
          Tok("_new", <<"2">>), Tok(".i3", <<>>)>>,
     \* Level2_IC86.2016_data_Run05_Subrun03.i3.bz2
     L2_subrun |->
        <<Tok("Level2", <<>>), Tok("_IC", <<"8", "6">>),
          Tok(".year", <<"2", "0", "1", "6">>),
          Tok("_data_Run", <<"0", "5">>), Tok("_Subrun", <<"0", "3">>),
          Tok(".i3", <<>>)>>,
     \* Level2_IC86.2011_data_Run05_Part06.i3.bz2
     L2_part |->
        <<Tok("Level2", <<>>), Tok("_IC", <<"8", "6">>),
          Tok(".year", <<"2", "0", "1", "1">>),
          Tok("_data_Run", <<"0", "5">>), Tok("_Part", <<"0", "6">>),
          Tok(".i3", <<>>)>>,
     \* Level2_IC59_data_Run05_Part09.i3.gz
     L2_ic59 |->
        <<Tok("Level2", <<>>), Tok("_IC", <<"5", "9">>),
          Tok("_data_Run", <<"0", "5">>), Tok("_Part", <<"0", "9">>),
          Tok(".i3", <<>>)>>,
     \* Level2_IC86_data_Run05_Part09.i3.gz
     L2_ic86 |->
        <<Tok("Level2", <<>>), Tok("_IC", <<"8", "6">>),
          Tok("_data_Run", <<"0", "5">>), Tok("_Part", <<"0", "9">>),
          Tok(".i3", <<>>)>>,
     \* Level2_All_Run05_part2.i3.gz
     L2_all |->
        <<Tok("Level2", <<>>), Tok("_All_Run", <<"0", "5">>),
          Tok("_part", <<"2">>), Tok(".i3", <<>>)>>,
     \* Level2_Run05_Part06.i3.gz
     L2_odd |->
        <<Tok("Level2", <<>>), Tok("_Run", <<"0", "5">>),
          Tok("_Part", <<"0", "6">>), Tok(".i3", <<>>)>>,
     \* Level2_IC86.2017_data_Run05_01_GCD.i3.zst
     GCD |->
        <<Tok("Level2", <<>>), Tok("_IC", <<"8", "6">>),
          Tok(".year", <<"2", "0", "1", "7">>),
          Tok("_data_Run", <<"0", "5">>), Tok("_", <<"0", "1">>),
          Tok("_GCD", <<>>), Tok(".i3", <<>>)>>,
     \* PFFilt_PhysicsTrig_Run59_06.tar.gz
     PFFilt |->
        <<Tok("PFFilt", <<>>), Tok("_Run", <<"5", "9">>),
          Tok("_", <<"0", "6">>), Tok(".tar", <<>>)>>,
     \* orig.PFFilt_PhysicsTrig_PhysicsFiltering_Run05_Subrun00_44.tar.gz
     PFFilt_orig |->
        <<Tok("orig.", <<>>), Tok("PFFilt", <<>>),
          Tok("_PhysicsFiltering_Run", <<"0", "5">>),
          Tok("_Subrun", <<"0", "0">>), Tok("_", <<"4", "4">>),
          Tok(".tar", <<>>)>>,
     \* orig.PFFilt_PhysicsTrig_Run59_06.tar.gz
     PFFilt_odd |->
        <<Tok("orig.", <<>>), Tok("PFFilt", <<>>),
          Tok("_Run", <<"5", "9">>), Tok("_", <<"0", "6">>),
          Tok(".tar", <<>>)>>,
     \* PFDST_TestData_PhysicsFiltering_Run05_Subrun00_14.tar.gz
     PFDST |->
        <<Tok("PFDST", <<>>), Tok("_PhysicsFiltering_Run", <<"0", "5">>),
          Tok("_Subrun", <<"0", "0">>), Tok("_", <<"1", "4">>),
          Tok(".tar", <<>>)>>,
     \* PFRaw_TestData_PhysicsFiltering_Run05_Subrun00_11.tar.gz
     PFRaw |->
        <<Tok("PFRaw", <<>>), Tok("_PhysicsFiltering_Run", <<"0", "5">>),
          Tok("_Subrun", <<"0", "0">>), Tok("_", <<"1", "1">>),
          Tok(".tar", <<>>)>>,
     \* DebugData-PFRaw_TestData_Run57.tar.gz
     DebugData |->
        <<Tok("DebugData-", <<>>), Tok("PFRaw", <<>>),
          Tok("_Run", <<"5", "7">>), Tok(".tar", <<>>)>>,
     \* PFRaw_TestData_Run05_Part06.tar.gz
     PFRaw_odd |->
        <<Tok("PFRaw", <<>>), Tok("_Run", <<"0", "5">>),
          Tok("_Part", <<"0", "6">>), Tok(".tar", <<>>)>>,
     \* README
     README |->
        <<Tok("README", <<>>)>>]

Filenames == {Names[k] : k \in DOMAIN Names}

\* A pattern without the `run` group.
\* .*_Part(?P<part>\d+)\.
PATTERN_WITHOUT_RUN == <<Gap(Grp({"_Part"}, "part")), Dot>>

\* The patterns that the pattern lists given to the parser are made of.
PatternPool ==
    Range(FILENAME_PATTERNS("L2")) \cup Range(FILENAME_PATTERNS("PFFilt"))
        \cup {FILENAME_PATTERNS("PFRaw")[i] : i \in 1..3}
        \cup {PATTERN_WITHOUT_RUN}

\* The longest pattern list given to the parser.
MaxPatterns == 2

ParseInit ==
    /\ DenyIdle
    /\ SyncIdle
    /\ RunIdle
    /\ TravIdle
    /\ CollIdle
    /\ MgrIdle
    /\ SimIdle
    /\ f_patterns \in SeqsUpTo(PatternPool, MaxPatterns)
    /\ f_filename \in Filenames
    /\ f_result = <<>>

\* I3FileMetadata.parse_year_run_subrun_part(patterns, filename)
ParseCall ==
    /\ f_result = <<>>
    /\ f_result' = <<parse_year_run_subrun_part(f_patterns, f_filename)>>
    /\ UNCHANGED <<f_patterns, f_filename, parseOthers>>

ParseNext == ParseCall

SpecParse == ParseInit /\ [][ParseNext]_vars

(***************************************************************************)
(* MetadataManager (indexer/metadata_manager.py)                           *)
(***************************************************************************)

\* 'file.name.split(".i3")[0]', and the like of a member "<name>_gaps.txt"
\* of a gaps archive.
RECURSIVE no_extension(_)
no_extension(name) ==
    IF name = <<>> \/ Head(name).tag = ".i3" THEN <<>>
    ELSE <<Head(name)>> \o no_extension(Tail(name))

\* A directory entry: `ok` says that its content can be read as what its
\* name announces (well-formed XML, a tar archive); `members` are the
\* "<name>_gaps.txt" members of a gaps archive, by <name>.
Entry(name, is_file, ok, members) ==
    [name |-> name, is_file |-> is_file, ok |-> ok, members |-> members]

\* The entries the directories of the model are made of: the descriptors
\* level2_meta.xml and level2pass2_meta.xml, well-formed, malformed, and as
\* the name of a directory; the gaps archive Run05_GapsTxt.tar, readable
\* and not; a GCD file and an L2 file.
Entries ==
    LET level2_meta == <<Tok("level2", <<>>), Tok("_meta.xml", <<>>)>>
        level2pass2_meta ==
            <<Tok("level2", <<>>), Tok("pass", <<"2">>), Tok("_meta.xml", <<>>)>>
        GapsTxt == <<Tok("Run", <<"0", "5">>), Tok("_GapsTxt.tar", <<>>)>>
    IN  [meta |-> Entry(level2_meta, TRUE, TRUE, {}),
         meta_malformed |-> Entry(level2_meta, TRUE, FALSE, {}),
         pass2 |-> Entry(level2pass2_meta, TRUE, TRUE, {}),
         pass2_malformed |-> Entry(level2pass2_meta, TRUE, FALSE, {}),
         pass2_dir |-> Entry(level2pass2_meta, FALSE, FALSE, {}),
         gaps |-> Entry(GapsTxt, TRUE, TRUE, {no_extension(Names.L2)}),
         gaps_malformed |-> Entry(GapsTxt, TRUE, FALSE, {}),
         gcd |-> Entry(Names.GCD, TRUE, TRUE, {}),
         l2 |-> Entry(Names.L2, TRUE, TRUE, {})]

\* re.match(r"level2.*meta\.xml$", dir_entry.name)
IsMetaXml(name) ==
    /\ name # <<>>
    /\ name[1].tag = "level2"
    /\ name[Len(name)].tag = "_meta.xml"

\* '"_GapsTxt.tar" in dir_entry.name' and '"GCD" in dir_entry.name'
IsGapsTxt(name) == \E i \in 1..Len(name) : name[i].tag = "_GapsTxt.tar"
IsGCD(name) == \E i \in 1..Len(name) : name[i].tag = "_GCD"

\* I3FileMetadata.parse_run_number: re.match(r".*Run(?P<run>\d+)", filename)
parse_run_number(filename) ==
    LET runs == {i \in 1..Len(filename) : filename[i].tag \in RunTags \cup {"Run"}}
    IN  IF runs = {} THEN Raised("Exception")
        ELSE Returned(int(filename[MaxOf(runs)].num))

\* The directories of the model: what the first holds is chosen at the
\* start, the second holds one descriptor.
Listings ==
    {{Entries.l2},
     {Entries.l2, Entries.meta},
     {Entries.l2, Entries.meta_malformed},
     {Entries.l2, Entries.meta, Entries.gaps, Entries.gcd},
     {Entries.l2, Entries.meta, Entries.gaps_malformed},
     {Entries.l2, Entries.meta_malformed, Entries.gaps_malformed},
     {Entries.l2, Entries.meta, Entries.pass2},
     {Entries.l2, Entries.meta, Entries.pass2_malformed},
     {Entries.l2, Entries.meta_malformed, Entries.pass2},
     {Entries.l2, Entries.meta_malformed, Entries.pass2_malformed},
     {Entries.l2, Entries.meta, Entries.pass2_dir}}

\* The files handed to new_file.
File(dir, name) == [dir |-> dir, name |-> name]
ManagerFiles ==
    {File("/data/exp/1", name) :
        name \in {Names.L2, Names.L2_odd, Names.GCD, Names.PFFilt, Names.PFFilt_odd, Names.PFDST,
                  Names.PFRaw_odd, Names.README}}
        \cup {File("/data/exp/2", Names.L2_part)}

\* The longest sequence of new_file calls on one manager.
MaxFiles == 2

\* l2_dir_metadata: {} or its three entries.
NoCache ==
    [filled |-> FALSE, dir_meta_xml |-> None, gaps_files |-> EmptyDict,
     gcd_files |-> EmptyDict]

\* The mutant: a name that no kind's base pattern matches is taken for the
\* last kind tried instead of falling through to the basic metadata.
new_file_kind_no_fallthrough(basic_only, filename) ==
    IF basic_only THEN "Basic"
    ELSE IF is_valid_filename("L2", filename) THEN "L2"
    ELSE IF is_valid_filename("PFFilt", filename) THEN "PFFilt"
    ELSE IF is_valid_filename("PFDST", filename) THEN "PFDST"
    ELSE "PFRaw"

\* new_file: the class of the object the factory builds.
new_file_kind(basic_only, filename) ==
    IF basic_only THEN "Basic"
    ELSE IF is_valid_filename("L2", filename) THEN "L2"
    ELSE IF is_valid_filename("PFFilt", filename) THEN "PFFilt"
    ELSE IF is_valid_filename("PFDST", filename) THEN "PFDST"
    ELSE IF is_valid_filename("PFRaw", filename) THEN "PFRaw"
    ELSE "Basic"

\* I3FileMetadata.__init__: the ValueError of a filename that matches no
\* pattern becomes an Exception, any other exception passes.
I3FileMetadata_init(kind, filename) ==
    LET parsed == parse_year_run_subrun_part(FILENAME_PATTERNS(kind), filename)
    IN  IF parsed.status = "ValueError" THEN Raised("Exception") ELSE parsed

\* What a new_file call came to: the object returned (its class, the
\* year, run, subrun and part it holds and, of an L2 object, meta_xml,
\* gaps_dict and gcd_filepath), or the exception raised.
Object(file, kind, parsed, meta_xml, gaps, gcd) ==
    [file |-> file, status |-> "ok", kind |-> kind, parsed |-> parsed,
     meta_xml |-> meta_xml, gaps |-> gaps, gcd |-> gcd]
Exception(file, kind) ==
    [file |-> file, status |-> "Exception", kind |-> kind, parsed |-> <<>>,
     meta_xml |-> None, gaps |-> None, gcd |-> None]

\* The mutant: new_file without its two "except KeyError", so that a file
\* without a gaps entry or without a GCD file for its run raises.
L2Object_keyerror(file, cache) ==
    LET key == no_extension(file.name)
        run == parse_run_number(file.name)
        init == I3FileMetadata_init("L2", file.name)
    IN  IF run.status # "ok" \/ init.status # "ok"
            \/ key \notin DOMAIN cache.gaps_files
            \/ run.value \notin DOMAIN cache.gcd_files
        THEN Exception(file, "L2")
        ELSE Object(file, "L2", init.value, cache.dir_meta_xml,
                    Some(cache.gaps_files[key]), Some(cache.gcd_files[run.value]))

\* new_file, lines 98-111: the lookups in the directory's metadata and
\* the L2FileMetadata object.
L2Object(file, cache) ==
    LET key == no_extension(file.name)
        gaps == IF key \in DOMAIN cache.gaps_files
                THEN Some(cache.gaps_files[key]) ELSE None
        run == parse_run_number(file.name)
        gcd == IF run.value \in DOMAIN cache.gcd_files
               THEN Some(cache.gcd_files[run.value]) ELSE None
        init == I3FileMetadata_init("L2", file.name)
    IN  IF run.status # "ok" \/ init.status # "ok" THEN Exception(file, "L2")
        ELSE Object(file, "L2", init.value, cache.dir_meta_xml, gaps, gcd)

\* new_file for a file that is not L2 (or with basic_only).  The files of
\* the model are no archives with a *.meta.xml member, so that
\* _grab_meta_xml_from_tar leaves meta_xml empty.
OtherObject(file, kind) ==
    IF kind = "Basic" THEN Object(file, "Basic", <<>>, None, None, None)
    ELSE LET init == I3FileMetadata_init(kind, file.name)
         IN  IF init.status # "ok" THEN Exception(file, kind)
             ELSE Object(file, kind, init.value, None, None, None)

MgrInit ==
    /\ DenyIdle
    /\ SyncIdle
    /\ RunIdle
    /\ TravIdle
    /\ CollIdle
    /\ ParseIdle
    /\ SimIdle
    /\ m_basic_only \in BOOLEAN
    /\ \E l \in Listings :
          m_listing = [d \in {"/data/exp/1", "/data/exp/2"} |->
                          IF d = "/data/exp/1" THEN l
                          ELSE {Entry(Names.L2_part, TRUE, TRUE, {}), Entries.pass2}]
    /\ m_dir_path = ""
    /\ m_l2_dir_metadata = NoCache
    /\ m_pc = "idle"
    /\ m_file = <<>>
    /\ m_todo = {}
    /\ m_dir_meta_xml = None
    /\ m_gaps_files = EmptyDict
    /\ m_gcd_files = EmptyDict
    /\ m_scanned = <<>>
    /\ m_results = <<>>

scanLocals == <<m_file, m_todo, m_dir_meta_xml, m_gaps_files, m_gcd_files, m_scanned>>

\* The mutant: a file that is not L2 makes the manager forget the
\* directory it holds.
NewFileOther_forgetting ==
    /\ m_pc = "idle"
    /\ Len(m_results) < MaxFiles
    /\ \E file \in ManagerFiles :
          LET kind == new_file_kind(m_basic_only, file.name)
          IN  /\ kind # "L2"
              /\ m_results' = Append(m_results, OtherObject(file, kind))
    /\ m_dir_path' = ""
    /\ m_l2_dir_metadata' = NoCache
    /\ UNCHANGED <<m_basic_only, m_listing, m_pc, scanLocals, mgrOthers>>

\* new_file(filepath) for a file that is not L2, or with basic_only.
NewFileOther ==
    /\ m_pc = "idle"
    /\ Len(m_results) < MaxFiles
    /\ \E file \in ManagerFiles :
          LET kind == new_file_kind(m_basic_only, file.name)
          IN  /\ kind # "L2"
              /\ m_results' = Append(m_results, OtherObject(file, kind))
    /\ UNCHANGED <<m_basic_only, m_listing, m_dir_path, m_l2_dir_metadata,
                   m_pc, scanLocals, mgrOthers>>

\* new_file(filepath) for an L2 file of the directory whose metadata the
\* manager holds.
NewFileL2 ==
    /\ m_pc = "idle"
    /\ Len(m_results) < MaxFiles
    /\ \E file \in ManagerFiles :
          /\ new_file_kind(m_basic_only, file.name) = "L2"
          /\ ~((~m_l2_dir_metadata.filled) \/ file.dir # m_dir_path)
          /\ m_results' = Append(m_results, L2Object(file, m_l2_dir_metadata))
    /\ UNCHANGED <<m_basic_only, m_listing, m_dir_path, m_l2_dir_metadata,
                   m_pc, scanLocals, mgrOthers>>

\* The mutant: _prep_l2_dir_metadata without "self.l2_dir_metadata = {}",
\* so that a scan that fails leaves the previous directory's metadata.
NewFileL2Prep_keeping ==
    /\ m_pc = "idle"
    /\ Len(m_results) < MaxFiles
    /\ \E file \in ManagerFiles :
          /\ new_file_kind(m_basic_only, file.name) = "L2"
          /\ (~m_l2_dir_metadata.filled) \/ file.dir # m_dir_path
          /\ m_file' = file
          /\ m_dir_path' = file.dir
          /\ m_todo' = m_listing[file.dir]
    /\ m_dir_meta_xml' = None
    /\ m_gaps_files' = EmptyDict
    /\ m_gcd_files' = EmptyDict
    /\ m_scanned' = <<>>
    /\ m_pc' = "scan"
    /\ UNCHANGED <<m_basic_only, m_listing, m_results, m_l2_dir_metadata, mgrOthers>>

\* The mutant: _prep_l2_dir_metadata without its first four lines, so that
\* the scan adds to what the previous directory gave.
NewFileL2Prep_merging ==
    /\ m_pc = "idle"
    /\ Len(m_results) < MaxFiles
    /\ \E file \in ManagerFiles :
          /\ new_file_kind(m_basic_only, file.name) = "L2"
          /\ (~m_l2_dir_metadata.filled) \/ file.dir # m_dir_path
          /\ m_file' = file
          /\ m_dir_path' = file.dir
          /\ m_todo' = m_listing[file.dir]
    /\ m_l2_dir_metadata' = NoCache
    /\ m_dir_meta_xml' = None
    /\ m_gaps_files' = m_l2_dir_metadata.gaps_files
    /\ m_gcd_files' = m_l2_dir_metadata.gcd_files
    /\ m_scanned' = <<>>
    /\ m_pc' = "scan"
    /\ UNCHANGED <<m_basic_only, m_listing, m_results, mgrOthers>>

\* new_file(filepath) for an L2 file of another directory, up to the first
\* os.scandir of _prep_l2_dir_metadata.
NewFileL2Prep ==
    /\ m_pc = "idle"
    /\ Len(m_results) < MaxFiles
    /\ \E file \in ManagerFiles :
          /\ new_file_kind(m_basic_only, file.name) = "L2"
          /\ (~m_l2_dir_metadata.filled) \/ file.dir # m_dir_path
          /\ m_file' = file
          /\ m_dir_path' = file.dir
          /\ m_todo' = m_listing[file.dir]
    /\ m_l2_dir_metadata' = NoCache
    /\ m_dir_meta_xml' = None
    /\ m_gaps_files' = EmptyDict
    /\ m_gcd_files' = EmptyDict
    /\ m_scanned' = <<>>
    /\ m_pc' = "scan"
    /\ UNCHANGED <<m_basic_only, m_listing, m_results, mgrOthers>>

\* The exception leaves _prep_l2_dir_metadata and new_file.
PrepRaise ==
    /\ m_pc' = "idle"
    /\ m_results' = Append(m_results, Exception(m_file, "L2"))
    /\ UNCHANGED <<m_dir_meta_xml, m_gaps_files, m_gcd_files>>

\* One round of "for dir_entry in os.scandir(self.dir_path)", which yields
\* the entries in any order.
PrepEntry ==
    /\ m_pc = "scan"
    /\ \E e \in m_todo :
          /\ m_todo' = m_todo \ {e}
          /\ m_scanned' = Append(m_scanned, e)
          /\ IF ~e.is_file
             THEN UNCHANGED <<m_dir_meta_xml, m_gaps_files, m_gcd_files, m_pc,
                              m_results>>
             ELSE IF IsMetaXml(e.name)
             THEN IF m_dir_meta_xml # None
                  THEN PrepRaise
                  ELSE /\ m_dir_meta_xml' = (IF e.ok THEN Some(e.name) ELSE None)
                       /\ UNCHANGED <<m_gaps_files, m_gcd_files, m_pc, m_results>>
             ELSE IF IsGapsTxt(e.name)
             THEN /\ m_gaps_files' =
                        (IF e.ok
                         THEN [k \in DOMAIN m_gaps_files \cup e.members |->
                                  IF k \in e.members THEN e.name
                                  ELSE m_gaps_files[k]]
                         ELSE m_gaps_files)
                  /\ UNCHANGED <<m_dir_meta_xml, m_gcd_files, m_pc, m_results>>
             ELSE IF IsGCD(e.name)
             THEN LET run == parse_run_number(e.name)
                  IN  IF run.status # "ok"
                      THEN PrepRaise
                      ELSE /\ m_gcd_files' =
                                 (run.value :> File(m_dir_path, e.name))
                                     @@ m_gcd_files
                           /\ UNCHANGED <<m_dir_meta_xml, m_gaps_files, m_pc,
                                          m_results>>
             ELSE UNCHANGED <<m_dir_meta_xml, m_gaps_files, m_gcd_files, m_pc,
                              m_results>>
    /\ UNCHANGED <<m_basic_only, m_listing, m_dir_path, m_l2_dir_metadata,
                   m_file, mgrOthers>>

\* The scan is over: lines 80-82 of _prep_l2_dir_metadata, and the rest of
\* new_file.
PrepDone ==
    /\ m_pc = "scan"
    /\ m_todo = {}
    /\ m_l2_dir_metadata' =
          [filled |-> TRUE, dir_meta_xml |-> m_dir_meta_xml,
           gaps_files |-> m_gaps_files, gcd_files |-> m_gcd_files]
    /\ m_results' = Append(m_results, L2Object(m_file, m_l2_dir_metadata'))
    /\ m_pc' = "idle"
    /\ UNCHANGED <<m_basic_only, m_listing, m_dir_path, scanLocals, mgrOthers>>

MgrNext == NewFileOther \/ NewFileL2 \/ NewFileL2Prep \/ PrepEntry \/ PrepDone

SpecMgr == MgrInit /\ [][MgrNext]_vars

(***************************************************************************)
(* Simulation files: DataSimI3FileMetadata (metadata/simulation/           *)
(* data_sim.py) and the IceProd resolver (iceprod_tools.py)                *)
(*                                                                         *)
(* A path is a sequence of segments.  A segment is a text, the decimal     *)
(* numeral of a number, or a text followed by a numeral; in the URL        *)
(* template of a job config the numeral may be a variable of the options   *)
(* ("dataset", "job", "iter") that the parser expands.                     *)
(***************************************************************************)

Seg(text, num, var) == [text |-> text, num |-> num, var |-> var]

_ICEPROD_V2_DATASET_RANGE == 20000..29999
_ICEPROD_V1_DATASET_RANGE == 0..19999

\* _get_iceprod_querier: which querier class serves the dataset.
_get_iceprod_querier(dataset_num) ==
    IF dataset_num \in _ICEPROD_V1_DATASET_RANGE THEN Returned("v1")
    ELSE IF dataset_num \in _ICEPROD_V2_DATASET_RANGE THEN Returned("v2")
    ELSE Raised("DatasetNotFound")

\* The mutant: one pass over the segments for both ranges at once.
_parse_dataset_num_from_dirpath_one_pass(filepath) ==
    LET within ==
            {k \in 1..(Len(filepath) - 1) :
                /\ filepath[k].text = ""
                /\ filepath[k].num # None
                /\ filepath[k].num[1] \in
                      _ICEPROD_V2_DATASET_RANGE \cup _ICEPROD_V1_DATASET_RANGE}
    IN  IF within # {} THEN Returned(filepath[MaxOf(within)].num[1])
        ELSE Raised("DatasetNotFound")

\* _parse_dataset_num_from_dirpath: int(p) of the segments but the last,
\* right to left, for the IceProd 2 range and then for the IceProd 1 range.
_parse_dataset_num_from_dirpath(filepath) ==
    LET Within(dataset_range) ==
            {k \in 1..(Len(filepath) - 1) :
                /\ filepath[k].text = ""
                /\ filepath[k].num # None
                /\ filepath[k].num[1] \in dataset_range}
        v2 == Within(_ICEPROD_V2_DATASET_RANGE)
        v1 == Within(_ICEPROD_V1_DATASET_RANGE)
    IN  IF v2 # {} THEN Returned(filepath[MaxOf(v2)].num[1])
        ELSE IF v1 # {} THEN Returned(filepath[MaxOf(v1)].num[1])
        ELSE Raised("DatasetNotFound")

\* The IceProdMetadata dict that both queriers build: all seven keys, with
\* None for what is not known.
IceProdMetadata(dataset, dataset_id, job, job_id, task, task_id) ==
    [dataset |-> Some(dataset), dataset_id |-> Some(dataset_id), job |-> job,
     job_id |-> job_id, task |-> task, task_id |-> task_id,
     config |-> Some(<<"config", dataset>>)]

\* What a resolution came to: the exception raised or "ok", the steering
\* parameters and the IceProd metadata returned, what _get_outfile_info
\* returned on the way, and the memoized coroutines awaited by then.
Resolved(status, steering, metadata, outfile, awaited) ==
    [status |-> status, steering |-> steering, metadata |-> metadata,
     outfile |-> outfile, awaited |-> awaited]

\* The steering parameters, expanded by ExpParser with the options of the
\* job config as they are at that time.
_expand_steering_parameters(options) == Some(options)

\* _IceProdV1Querier.get_steering_params_and_ip_metadata; DatasetNotFound
\* from _query_steering_params when the table has no row of the dataset.
V1_get_steering_params_and_ip_metadata(dataset_num, job_index, stores, awaited) ==
    IF dataset_num \notin stores.v1
    THEN Resolved("DatasetNotFound", None, None, None, awaited)
    ELSE Resolved("ok",
                  _expand_steering_parameters(
                      [dataset |-> Some(dataset_num), job |-> job_index,
                       task |-> None, iter |-> None]),
                  Some(IceProdMetadata(dataset_num, <<"str", dataset_num>>,
                                       job_index,
                                       IF job_index # None
                                       THEN Some(<<"str", job_index[1]>>)
                                       ELSE None,
                                       None, None)),
                  None, awaited)

\* A data entry of a job config, and its "remote" URL: with or without
\* "scheme://host" before the path.
Data(has_host, path, type, movement) ==
    [remote |-> [has_host |-> has_host, path |-> path], type |-> type,
     movement |-> movement]

\* The job config that GET /config/{dataset_id} answers with: two tasks
\* with data of their own, of a tray and of a module.
JobConfig ==
    LET dir == <<Seg("data", None, ""), Seg("sim", None, ""),
                 Seg("", Some(2016), ""), Seg("", None, "dataset")>>
    IN  [jobs_submitted |-> 2,
         tasks |->
          <<[name |-> "generate",
             data |-> <<Data(TRUE, dir \o <<Seg("gen_", None, "job")>>,
                             "permanent", "output")>>,
             trays |->
              <<[iterations |-> 2,
                 data |-> <<Data(FALSE, dir \o <<Seg("tray_", None, "iter")>>,
                                 "site_temp", "both")>>,
                 modules |->
                  <<[data |-> <<Data(TRUE, dir \o <<Seg("in_", None, "job")>>,
                                     "permanent", "input"),
                                Data(TRUE, dir \o <<Seg("tmp_", None, "job")>>,
                                     "job_temp", "output")>>]>>]>>],
            [name |-> "filter",
             data |-> <<Data(TRUE, dir \o <<Seg("Level2_", None, "job")>>,
                             "permanent", "output")>>,
             trays |->
              <<[iterations |-> 1,
                 data |-> <<>>,
                 modules |->
                  <<[data |-> <<Data(TRUE, dir \o <<Seg("gen_", None, "job")>>,
                                     "permanent", "both")>>]>>]>>]>>]

\* The concatenation of F(seq[1]), F(seq[2]), ...
RECURSIVE FlatMap(_, _)
FlatMap(F(_), seq) ==
    IF seq = <<>> THEN <<>> ELSE F(Head(seq)) \o FlatMap(F, Tail(seq))

\* _IceProdV2Querier._get_outfiles
_get_outfiles(job_config) ==
    LET do_append(datum) ==
            /\ datum.type \in {"permanent", "site_temp"}
            /\ datum.movement \in {"output", "both"}
        Files(data, iters, task) ==
            FlatMap(LAMBDA d : IF do_append(d)
                               THEN <<[url |-> d.remote, iters |-> iters,
                                       task |-> task]>>
                               ELSE <<>>,
                    data)
        OfTray(tray, task) ==
            Files(tray.data, tray.iterations, task)
                \o FlatMap(LAMBDA module :
                               Files(module.data, tray.iterations, task),
                           tray.modules)
        OfTask(task) ==
            Files(task.data, 1, task.name)
                \o FlatMap(LAMBDA tray : OfTray(tray, task.name), task.trays)
    IN  FlatMap(OfTask, job_config.tasks)

\* get_path_from_url: the URL, expanded with the options, without its
\* "scheme://host".
get_path_from_url(f_data, options) ==
    [k \in 1..Len(f_data.url.path) |->
        LET s == f_data.url.path[k]
        IN  IF s.var = "" THEN s ELSE Seg(s.text, options[s.var], "")]

\* The mutant: the search without "reversed", in the order of declaration.
_get_outfile_info_as_declared(filepath, dataset_num, job_index, job_config) ==
    LET job_search == IF job_index # None THEN <<job_index[1]>>
                      ELSE [k \in 1..job_config.jobs_submitted |-> k - 1]
        Options(task, job, iter) ==
            [dataset |-> Some(dataset_num), job |-> job, task |-> task,
             iter |-> iter]
        Searched(possible_outfiles) ==
            FlatMap(LAMBDA f_data :
                FlatMap(LAMBDA job :
                    [i \in 1..f_data.iters |->
                        [f_data |-> f_data,
                         options |-> Options(Some(f_data.task), Some(job),
                                             Some(i - 1))]],
                    job_search),
                possible_outfiles)
        Hits(searched) ==
            {k \in 1..Len(searched) :
                get_path_from_url(searched[k].f_data, searched[k].options)
                    = filepath}
        Found(searched, hits) ==
            IF hits # {}
            THEN [job |-> searched[MinOf(hits)].options.job,
                  task |-> searched[MinOf(hits)].options.task,
                  steering |-> _expand_steering_parameters(
                                   searched[MinOf(hits)].options)]
            ELSE [job |-> job_index, task |-> None,
                  steering |-> _expand_steering_parameters(
                                   Options(None, job_index, None))]
        Search(searched) == Found(searched, Hits(searched))
    IN  Search(Searched(_get_outfiles(job_config)))

\* _IceProdV2Querier._get_outfile_info, from the search on: the job, the
\* task name and the steering parameters it returns.
_get_outfile_info(filepath, dataset_num, job_index, job_config) ==
    LET job_search == IF job_index # None THEN <<job_index[1]>>
                      ELSE [k \in 1..job_config.jobs_submitted |-> k - 1]
        Options(task, job, iter) ==
            [dataset |-> Some(dataset_num), job |-> job, task |-> task,
             iter |-> iter]
        \* the options of every round of the three loops, in their order
        Searched(possible_outfiles) ==
            FlatMap(LAMBDA f_data :
                FlatMap(LAMBDA job :
                    [i \in 1..f_data.iters |->
                        [f_data |-> f_data,
                         options |-> Options(Some(f_data.task), Some(job),
                                             Some(i - 1))]],
                    job_search),
                [k \in 1..Len(possible_outfiles) |->
                    possible_outfiles[Len(possible_outfiles) + 1 - k]])
        Hits(searched) ==
            {k \in 1..Len(searched) :
                get_path_from_url(searched[k].f_data, searched[k].options)
                    = filepath}
        Unpack(options) ==
            [job |-> options.job, task |-> options.task,
             steering |-> _expand_steering_parameters(options)]
        Found(searched, hits) ==
            IF hits # {}
            THEN Unpack(searched[MinOf(hits)].options)
            ELSE [job |-> job_index, task |-> None,
                  steering |-> _expand_steering_parameters(
                                   Options(None, job_index, None))]
        Search(searched) == Found(searched, Hits(searched))
    IN  Search(Searched(_get_outfiles(job_config)))

\* The key under which functools.lru_cache holds the coroutine of a
\* memoized lookup of IceProd 2.  The coroutine of a key is made at the
\* first call and handed out again at every later one; awaiting it a
\* second time raises RuntimeError.
CacheKey(lookup, dataset_num, job_index) == <<lookup, dataset_num, job_index>>

\* _IceProdV2Querier.get_steering_params_and_ip_metadata.  In
\* _get_iceprod2_dataset_tasks the request is not awaited, so that
\* ret.values() is asked of a coroutine: AttributeError.
V2_get_steering_params_and_ip_metadata(filepath, dataset_num, job_index, stores, awaited) ==
    LET datasets == CacheKey("datasets", 0, 0)
        config == CacheKey("config", dataset_num, 0)
        dataset_id == <<"id", dataset_num>>
        With(outfile, tasks) ==
            IF datasets \in awaited
            THEN Resolved("RuntimeError", None, None, None, awaited)
            ELSE IF dataset_num \notin stores.v2
            THEN Resolved("DatasetNotFound", None, None, None,
                          awaited \cup {datasets})
            ELSE IF config \in awaited
            THEN Resolved("RuntimeError", None, None, None,
                          awaited \cup {datasets})
            ELSE IF outfile.job = None \/ outfile.task = None
            THEN \* TaskNotFound, caught
                 Resolved("ok", outfile.steering,
                          Some(IceProdMetadata(dataset_num, dataset_id, outfile.job,
                                               None, None, None)),
                          Some(outfile), awaited \cup {datasets, config})
            ELSE IF tasks \in awaited
            THEN Resolved("RuntimeError", None, None, Some(outfile),
                          awaited \cup {datasets, config})
            ELSE Resolved("AttributeError", None, None, Some(outfile),
                          awaited \cup {datasets, config, tasks})
        Tasks(outfile) ==
            With(outfile,
                 CacheKey("tasks", dataset_num,
                          IF outfile.job # None THEN outfile.job[1] ELSE 0))
    IN  Tasks(_get_outfile_info(filepath, dataset_num, job_index, JobConfig))

\* get_steering_params_and_ip_metadata (the module's function)
get_steering_params_and_ip_metadata(dataset_num, filepath, job_index, stores, awaited) ==
    LET given == IF dataset_num # None THEN _get_iceprod_querier(dataset_num[1])
                 ELSE Raised("DatasetNotFound")
        Num(parsed) ==
            IF given.status = "ok" THEN dataset_num
            ELSE IF parsed.status = "ok" THEN Some(parsed.value)
            ELSE None
        Query(num, querier) ==
            IF querier.value = "v1"
            THEN V1_get_steering_params_and_ip_metadata(num[1], job_index, stores,
                                                        awaited)
            ELSE V2_get_steering_params_and_ip_metadata(filepath, num[1],
                                                        job_index, stores, awaited)
        With(num) ==
            IF num = None
            THEN Resolved("DatasetNotFound", None, None, None, awaited)
            ELSE Query(num, _get_iceprod_querier(num[1]))
    IN  With(Num(_parse_dataset_num_from_dirpath(filepath)))

\* iceprod_tools.get_job_config, grab_metadata and grab_steering_paramters,
\* which DataSimI3FileMetadata.generate calls: the resolution above, of
\* which generate takes the IceProd metadata and the steering parameters.
get_job_config(dataset_num, filepath, job_index, stores, awaited) ==
    get_steering_params_and_ip_metadata(dataset_num, filepath, job_index,
                                        stores, awaited)

\* BasicFileMetadata.generate and I3FileMetadata.generate (i3.py): the
\* keys of the record; processing_level.value of no processing level is an
\* AttributeError.
I3FileMetadata_generate(file) ==
    IF file.processing_level = None THEN Raised("AttributeError")
    ELSE Returned([k \in {"logical_name", "checksum", "file_size", "locations",
                          "create_date", "data_type", "processing_level",
                          "content_status"} |->
                      IF k = "logical_name" THEN file.path ELSE <<>>])

\* The mutant: generate without its "except iceprod_tools.DatasetNotFound".
DataSim_generate_failfast(file, stores, awaited) ==
    LET Add(metadata, job_config) ==
            IF metadata.status # "ok"
            THEN [status |-> metadata.status, metadata |-> None,
                  awaited |-> awaited]
            ELSE IF job_config.status # "ok"
            THEN [status |-> job_config.status, metadata |-> None,
                  awaited |-> job_config.awaited]
            ELSE [status |-> "ok",
                  metadata |-> Some(("iceprod" :> job_config.metadata[1])
                                        @@ ("simulation" :> job_config.steering[1])
                                        @@ metadata.value),
                  awaited |-> job_config.awaited]
    IN  Add(I3FileMetadata_generate(file),
            get_job_config(file.iceprod_dataset_num, file.path,
                           file.iceprod_job_index, stores, awaited))

\* DataSimI3FileMetadata.generate: the record or the exception, and the
\* memoized coroutines awaited by then.
DataSim_generate(file, stores, awaited) ==
    LET Add(metadata, job_config) ==
            IF metadata.status # "ok"
            THEN [status |-> metadata.status, metadata |-> None,
                  awaited |-> awaited]
            ELSE IF job_config.status = "DatasetNotFound"
            THEN [status |-> "ok", metadata |-> Some(metadata.value),
                  awaited |-> job_config.awaited]
            ELSE IF job_config.status # "ok"
            THEN [status |-> job_config.status, metadata |-> None,
                  awaited |-> job_config.awaited]
            ELSE [status |-> "ok",
                  metadata |-> Some(("iceprod" :> job_config.metadata[1])
                                        @@ ("simulation" :> job_config.steering[1])
                                        @@ metadata.value),
                  awaited |-> job_config.awaited]
    IN  Add(I3FileMetadata_generate(file),
            get_job_config(file.iceprod_dataset_num, file.path,
                           file.iceprod_job_index, stores, awaited))

\* The simulation files of the model: their paths, and what the
\* constructor found in their names (dataset number, job index,
\* processing level).
SimFiles ==
    LET sim == <<Seg("data", None, ""), Seg("sim", None, "")>>
        paths ==
            {sim \o <<Seg("", Some(2016), ""), Seg("", Some(20001), ""),
                      Seg("Level2_", Some(1), "")>>,
             sim \o <<Seg("", Some(2016), ""), Seg("", Some(20001), ""),
                      Seg("gen_", Some(1), "")>>,
             sim \o <<Seg("", Some(2016), ""), Seg("", Some(20001), ""),
                      Seg("tray_", Some(1), "")>>,
             sim \o <<Seg("", Some(2016), ""), Seg("", Some(20002), ""),
                      Seg("other_", Some(1), "")>>,
             sim \o <<Seg("", Some(12345), ""), Seg("", Some(2012), ""),
                      Seg("nugen_", Some(7), "")>>,
             sim \o <<Seg("", Some(20002), ""), Seg("", Some(2012), ""),
                      Seg("nugen_", Some(7), "")>>,
             sim \o <<Seg("unknown", None, ""), Seg("nugen_", Some(30001), "")>>}
    IN  [path : paths,
         iceprod_dataset_num : {None, Some(20001), Some(12345), Some(30001)},
         iceprod_job_index : {None, Some(0), Some(1)},
         processing_level : {None, Some("L2")}]

\* The most calls made on simulation files in one process.
MaxSims == 2

SimInit ==
    /\ DenyIdle
    /\ SyncIdle
    /\ RunIdle
    /\ TravIdle
    /\ CollIdle
    /\ ParseIdle
    /\ MgrIdle
    /\ i_stores \in [v1 : SUBSET {12345}, v2 : SUBSET {20001, 20002}]
    /\ i_awaited = {}
    /\ i_calls = 0
    /\ i_result = None

\* A call of iceprod_tools.get_steering_params_and_ip_metadata
SimResolve ==
    /\ i_calls < MaxSims
    /\ \E file \in SimFiles :
          \E r \in {get_steering_params_and_ip_metadata(
                        file.iceprod_dataset_num, file.path,
                        file.iceprod_job_index, i_stores, i_awaited)} :
              /\ i_result' = Some([call |-> "resolve", file |-> file,
                                   before |-> i_awaited, out |-> r])
              /\ i_awaited' = r.awaited
    /\ i_calls' = i_calls + 1
    /\ UNCHANGED <<i_stores, simOthers>>

\* DataSimI3FileMetadata(file, ...).generate()
SimGenerate ==
    /\ i_calls < MaxSims
    /\ \E file \in SimFiles :
          \E r \in {DataSim_generate(file, i_stores, i_awaited)} :
              /\ i_result' = Some([call |-> "generate", file |-> file,
                                   before |-> i_awaited, out |-> r])
              /\ i_awaited' = r.awaited
    /\ i_calls' = i_calls + 1
    /\ UNCHANGED <<i_stores, simOthers>>

SimNext == SimResolve \/ SimGenerate

SpecSim == SimInit /\ [][SimNext]_vars

(***************************************************************************)
(* Claims about the filename parser                                        *)
(***************************************************************************)

\* The places of the list whose pattern matches the filename.
Matching ==
    {i \in 1..Len(f_patterns) : re_match(f_patterns[i], f_filename).matched}

\* match.groupdict() of the pattern at place i of the list.
GroupsAt(i) == re_match(f_patterns[i], f_filename).groupdict

\* The season "IC<ic_strings>" is one of the season table.
KnownSeason(g) ==
    "ic_strings" \in DOMAIN g =>
        \E i \in 1..Len(SEASONS) : SEASONS[i].name = <<"I", "C">> \o g["ic_strings"]

\* The year the groups g stand for.
YearOf(g) ==
    IF "ic_strings" \in DOMAIN g
    THEN LET i == CHOOSE i \in 1..Len(SEASONS) :
                      SEASONS[i].name = <<"I", "C">> \o g["ic_strings"]
         IN  Some(SEASONS[i].year)
    ELSE IF "year" \in DOMAIN g THEN Some(int(g["year"]))
    ELSE None

\* C18: the year, run, subrun and part returned for a filename and a list
\* of patterns are the groups of the first pattern of the list that matches
\* the filename, whatever the patterns after it do; a group the pattern
\* lacks gives year None, subrun 0, part 0.  (The lists are those whose
\* patterns, up to the one that matches, have the `run` group, and the
\* season of an `ic_strings` group is one of the season table: the call
\* raises on the others.)
C18_FirstMatchWins ==
    (f_result # <<>> /\ Matching # {}) =>
        LET first == MinOf(Matching)
            g == GroupsAt(first)
            r == f_result[1]
        IN  ((\A j \in 1..first : HasRunGroup(f_patterns[j])) /\ KnownSeason(g)) =>
                /\ r.status = "ok"
                /\ r.value[1] = YearOf(g)
                /\ r.value[2] = int(g["run"])
                /\ r.value[3] = (IF "subrun" \in DOMAIN g THEN int(g["subrun"]) ELSE 0)
                /\ r.value[4] = (IF "part" \in DOMAIN g THEN int(g["part"]) ELSE 0)

\* The first pattern that matches has neither year nor subrun, a later one
\* that matches has a year, and the call returned no year and subrun 0.
C18_Witness ==
    /\ f_result # <<>>
    /\ Cardinality(Matching) >= 2
    /\ \A j \in 1..Len(f_patterns) : HasRunGroup(f_patterns[j])
    /\ DOMAIN GroupsAt(MinOf(Matching)) = {"run", "part"}
    /\ \E i \in Matching : "year" \in DOMAIN GroupsAt(i)
    /\ f_result[1].status = "ok"
    /\ f_result[1].value[1] = None
    /\ f_result[1].value[3] = 0
    /\ f_result[1].value[4] > 0

(***************************************************************************)
(* Claims about the metadata manager                                       *)
(***************************************************************************)

NonBasicKinds == {"L2", "PFFilt", "PFDST", "PFRaw"}

\* No pattern of any kind's list matches the filename.
MatchesNoPattern(filename) ==
    \A kind \in NonBasicKinds :
        \A i \in 1..Len(FILENAME_PATTERNS(kind)) :
            ~re_match(FILENAME_PATTERNS(kind)[i], filename).matched

\* The kinds whose base pattern matches the filename.
BaseKinds(filename) ==
    {kind \in NonBasicKinds : is_valid_filename(kind, filename)}

\* C19: with basic_only off, a file whose name matches none of the patterns
\* of any non-Basic kind is classified Basic and new_file returns its basic
\* metadata object; the call never raises for it.
C19_UnmatchedIsBasic ==
    \A i \in 1..Len(m_results) :
        (~m_basic_only /\ MatchesNoPattern(m_results[i].file.name)) =>
            (m_results[i].status = "ok" /\ m_results[i].kind = "Basic")

\* C19 as amended: with basic_only off, a file whose name matches none of
\* the patterns of any non-Basic kind is classified Basic and new_file
\* returns its basic metadata object, unless the name matches the base
\* pattern of a non-Basic kind: then the file is rejected, new_file raises.
C19_NoBaseIsBasic ==
    \A i \in 1..Len(m_results) :
        LET r == m_results[i]
        IN  (~m_basic_only /\ MatchesNoPattern(r.file.name)) =>
                IF BaseKinds(r.file.name) = {}
                THEN r.status = "ok" /\ r.kind = "Basic"
                ELSE r.status = "Exception"

\* One call returned the basic object of a Level2 name that no base pattern
\* and no pattern matches, another raised for a name that a base pattern
\* matches and no pattern does.
C19_Witness ==
    /\ ~m_basic_only
    /\ \E i \in 1..Len(m_results) :
          /\ BaseKinds(m_results[i].file.name) = {}
          /\ MatchesNoPattern(m_results[i].file.name)
          /\ m_results[i].file.name[1].tag = "Level2"
          /\ m_results[i].status = "ok"
          /\ m_results[i].kind = "Basic"
    /\ \E i \in 1..Len(m_results) :
          /\ BaseKinds(m_results[i].file.name) # {}
          /\ MatchesNoPattern(m_results[i].file.name)
          /\ m_results[i].status = "Exception"

\* The level2*meta.xml files of a directory.
Descriptors(dir) == {e \in m_listing[dir] : e.is_file /\ IsMetaXml(e.name)}

\* C20: _prep_l2_dir_metadata never comes to its end for a directory that
\* holds two or more level2*meta.xml files: it raises, in whatever order
\* os.scandir yields the entries and whether the descriptor read first is
\* well-formed or not, so that the manager never holds the metadata of
\* such a directory.
C20_TwoDescriptorsFatal ==
    m_l2_dir_metadata.filled => Cardinality(Descriptors(m_dir_path)) < 2

\* What the directory of an L2 file holds for it: a well-formed descriptor,
\* a readable gaps archive with a member for the file, a GCD file of the
\* file's run.
HasDescriptor(dir) == \E e \in Descriptors(dir) : e.ok
HasGaps(file) ==
    \E e \in m_listing[file.dir] \ Descriptors(file.dir) :
        e.is_file /\ IsGapsTxt(e.name) /\ e.ok
            /\ no_extension(file.name) \in e.members
HasGCD(file) ==
    \E e \in m_listing[file.dir] \ Descriptors(file.dir) :
        /\ e.is_file /\ ~IsGapsTxt(e.name) /\ IsGCD(e.name)
        /\ parse_run_number(e.name) = parse_run_number(file.name)

\* The new_file calls for a file that is taken for L2, whose name one of
\* the L2 patterns matches and whose directory holds one descriptor at
\* most.
L2Calls ==
    {i \in 1..Len(m_results) :
        LET file == m_results[i].file
        IN  /\ ~m_basic_only
            /\ is_valid_filename("L2", file.name)
            /\ I3FileMetadata_init("L2", file.name).status = "ok"
            /\ Cardinality(Descriptors(file.dir)) <= 1}

Generated ==
    /\ i_result # None
    /\ i_result[1].call = "generate"
    /\ i_result[1].file.processing_level # None

\* The dataset of the file cannot be found: the resolution raises
\* DatasetNotFound.
DatasetUnknown(call) ==
    get_steering_params_and_ip_metadata(
        call.file.iceprod_dataset_num, call.file.path,
        call.file.iceprod_job_index, i_stores, call.before).status
            = "DatasetNotFound"

NoOutfileMatched ==
    /\ i_result # None
    /\ i_result[1].call = "resolve"
    /\ i_result[1].out.outfile # None
    /\ i_result[1].out.outfile[1].task = None

\* C23: when no output descriptor of the dataset expands to the file's
\* path, the resolver returns without raising, and the IceProd metadata it
\* returns holds the dataset identity only: the keys "job", "job_id",
\* "task" and "task_id" are not in it.
C23_NoMatchIdentityOnly ==
    NoOutfileMatched =>
        /\ i_result[1].out.status = "ok"
        /\ {"job", "job_id", "task", "task_id"}
              \cap DOMAIN i_result[1].out.metadata[1] = {}

(***************************************************************************)
(* Claims about the scheduler                                              *)
(***************************************************************************)

\* No starting path lies under another.
NoneUnderAnother ==
    \A s \in Range(starting_paths) : \A t \in Range(starting_paths) : ~IsUnder(s, t)

\* The regular files reachable from the starting paths through directory
\* entries that are not symbolic links.
ReachableFiles ==
    {f \in DOMAIN Tree :
        /\ Tree[f] = "file"
        /\ \E s \in Range(starting_paths) :
              \/ f = s
              \/ /\ Lstat(s) = "dir"
                 /\ IsUnder(f, s)
                 /\ \A a \in DOMAIN Tree :
                       (IsUnder(f, a) /\ IsUnder(a, s)) => Tree[a] = "dir"}

\* The calls of index_file / process_file on the file, one per worker that
\* had it in its slice.
IndexCalls(f) == {v \in visited : v.path = f /\ v.what = "index"}

\* No worker has a path twice in its slice.
SlicesHaveNoRepeats ==
    \A k \in 1..Len(futures) :
        \A i \in 1..Len(futures[k].paths) : \A j \in 1..Len(futures[k].paths) :
            futures[k].paths[i] = futures[k].paths[j] => i = j

\* C24: for starting paths none of which lies under another, a tree that
\* does not change and an empty denylist, once the traversal has stopped
\* every regular file reachable from the starting paths through
\* non-symlink entries has been passed to index_file exactly once.
C24_EveryFileIndexedOnce ==
    (NoneUnderAnother /\ r_denylist = <<>>) =>
        /\ SlicesHaveNoRepeats
        /\ RunOver => \A f \in ReachableFiles : Cardinality(IndexCalls(f)) = 1

\* The workers in `futures` stand in the order of their dispatch.
InDispatchOrder(futs) ==
    \A j \in 1..Len(futs) : \A k \in 1..Len(futs) : j < k => futs[j].id < futs[k].id

\* C25: results are harvested strictly in dispatch order: the outstanding
\* workers stand in the order of their dispatch, the only worker the
\* scheduler ever takes from them is the first one, which has finished, and
\* the only paths the queue ever gains are the child paths of that first
\* worker -- whatever the state of the workers dispatched after it.
C25_HarvestInDispatchOrder ==
    [][ /\ InDispatchOrder(futures)
        /\ (Len(futures') < Len(futures) \/ Len(queue') > Len(queue)) =>
              /\ futures # <<>>
              /\ Finished(futures[1])
              /\ futures' = Tail(futures)
              /\ queue' \in {queue, queue \o futures[1].child_paths} ]_vars

\* The scheduler waits for its first worker, which is still running, while
\* the worker dispatched after it has finished with child paths to deliver.
C25_Witness ==
    /\ r_pc = "wait"
    /\ Len(futures) = 2
    /\ futures[1].st = "running"
    /\ futures[2].st = "done"
    /\ futures[2].child_paths # <<>>

\* The workers dispatched by the step.
Dispatched == submitted' - submitted

\* C26: a worker is dispatched only while the queue is non-empty: of the
\* workers one pass dispatches, each takes `split` paths from the sorted,
\* deduplicated queue, and the queue still holds a path when the last of
\* them takes its slice.
C26_NoEmptySlice ==
    [][ Dispatched > 0 =>
          (Dispatched - 1) * split < Len(sorted_unique_filepaths(queue)) ]_vars

\* The j-th run of `size` paths of the queue: queue[:size] after j - 1 such
\* runs were taken, which is shorter, or empty, where the queue ends.
Slice(q, j, size) ==
    SubSeq(q, Min((j - 1) * size, Len(q)) + 1, Min(j * size, Len(q)))

\* The paths of a slice that the worker keeps: those not denylisted.
Kept(paths) == SelectSeq(paths, LAMBDA q : ~Denied(q))

\* The slice size is ceil(len(queue) / n_processes), computed from the
\* starting paths and again whenever a worker's child paths have been
\* merged into the queue.
SplitFromLatestMerge ==
    /\ split = Ceil(Len(starting_paths), n_processes)
    /\ [][ /\ Len(queue') > Len(queue) => split' = Ceil(Len(queue'), n_processes)
           /\ split' # split => Len(queue') > Len(queue) ]_vars

\* The workers of one pass take consecutive runs of the sorted,
\* deduplicated queue, in the order of their dispatch, and the queue keeps
\* the rest.
ContiguousSlices ==
    LET sorted == sorted_unique_filepaths(queue) IN
    /\ \A j \in 1..Dispatched :
          futures'[Len(futures) + j].paths = Kept(Slice(sorted, j, split))
    /\ queue' = SubSeq(sorted, Min(Dispatched * split, Len(sorted)) + 1, Len(sorted))

\* C27 as claimed: each slice dequeued for a worker is a contiguous run of
\* the sorted, deduplicated queue, and its length is ceil(remaining /
\* n_processes), remaining being the length of the queue after the latest
\* merge of worker results.
C27_SliceIsCeil ==
    /\ SplitFromLatestMerge
    /\ [][ Dispatched > 0 =>
             /\ ContiguousSlices
             /\ \A j \in 1..Dispatched :
                   Len(Slice(sorted_unique_filepaths(queue), j, split)) = split ]_vars

\* C27, amended: each slice dequeued for a worker is a contiguous run of
\* the sorted, deduplicated queue, and its length is at most ceil(remaining
\* / n_processes): it is that long while the queue has as many paths left,
\* and holds what is left of the queue, possibly nothing, otherwise.
\* remaining is the length of the queue right after the latest merge of
\* worker results (of the starting paths before any merge).
C27_SliceAtMostCeil ==
    /\ SplitFromLatestMerge
    /\ [][ Dispatched > 0 =>
             /\ ContiguousSlices
             /\ \A j \in 1..Dispatched :
                   LET sorted == sorted_unique_filepaths(queue)
                       left == Len(sorted) - Min((j - 1) * split, Len(sorted))
                   IN  Len(Slice(sorted, j, split)) = Min(split, left) ]_vars

\* Of three queued paths and a slice size of two, the second worker of the
\* pass was given the one path that was left.
C27_Witness ==
    /\ r_pc = "wait"
    /\ r_denylist = <<>>
    /\ split = 2
    /\ Len(futures) = 2
    /\ Len(futures[1].paths) = 2 /\ futures[1].i = 1
    /\ Len(futures[2].paths) = 1 /\ futures[2].i = 1
    /\ queue = <<>>

\* C28: at every point of the traversal at most n_processes workers are
\* outstanding, and whenever the scheduler waits for a result at least one
\* worker is outstanding.
C28_WorkersBounded ==
    /\ Len(futures) <= n_processes
    /\ r_pc = "wait" => Len(futures) >= 1

\* The scheduler waits for the one worker that is still outstanding, of two
\* worker processes, with nothing left in the queue.
C28_Witness ==
    /\ r_pc = "wait"
    /\ n_processes = 2
    /\ Len(futures) = 1
    /\ futures[1].st = "running"
    /\ queue = <<>>

(***************************************************************************)
(* Claims about the order of the catalog requests                          *)
(***************************************************************************)

\* The requests of the n-th index_file call, in the order they were sent.
RequestsOfCall(n) == SelectSeq(requests, LAMBDA r : r.who = n)

\* Their methods.
MethodsOfCall(n) ==
    [i \in 1..Len(RequestsOfCall(n)) |-> RequestsOfCall(n)[i].method]

\* C29: the requests of one index_file call come in the order existence
\* GET, POST, PATCH.  With patch off the GET is sent, first, and then at
\* most one POST and never a PATCH; with patch on no GET is sent, at most
\* one POST, and then at most one PATCH, which follows a POST that was
\* answered 409.
C29_RequestOrder ==
    \A n \in 1..Len(calls) :
        IF patch
        THEN /\ MethodsOfCall(n) \in {<<>>, <<"POST">>, <<"POST", "PATCH">>}
             /\ Len(RequestsOfCall(n)) = 2 => RequestsOfCall(n)[1].status = "409"
        ELSE MethodsOfCall(n) \in {<<"GET">>, <<"GET", "POST">>}

\* With patch off, a call whose existence GET found nothing and whose POST
\* was answered 409 has ended without a PATCH.
C29_Witness ==
    /\ ~patch
    /\ Len(calls) >= 1
    /\ calls[1].outcome = "skipped_conflict"
    /\ MethodsOfCall(1) = <<"GET", "POST">>
    /\ RequestsOfCall(1)[1].status = "200"
    /\ RequestsOfCall(1)[2].status = "409"

(***************************************************************************)
(* Claims about the two ways of running the recursion                      *)
(***************************************************************************)

\* The files a run has indexed.
IndexedFiles == {v.path : v \in {u \in visited : u.what = "index"}}

\* The catalog writes a run has sent: the method and the record.
CatalogWrites == {<<requests[i].method, requests[i].body>> : i \in WritesIn(requests)}

\* The denylist filter of _index.
NotDenylisted(paths) == SelectSeq(paths, LAMBDA q : ~path_in_denylist(q, r_denylist))

\* The child paths that the directories among the given paths yield, in the
\* order of the paths.
RECURSIVE ChildPathsOf(_)
ChildPathsOf(paths) ==
    IF paths = <<>> THEN <<>>
    ELSE (IF Lstat(Head(paths)) = "dir" THEN get_subpaths(Head(paths)) ELSE <<>>)
         \o ChildPathsOf(Tail(paths))

\* The paths that "while queue: queue = _index(queue, ...)" takes up from
\* the given queue on, one after the other, when no request fails: the
\* queue sorted, deduplicated and filtered, and then those of its children.
RECURSIVE PathsInTurn(_)
PathsInTurn(q) ==
    IF q = <<>> THEN <<>>
    ELSE LET paths == NotDenylisted(sorted_unique_filepaths(q))
         IN  paths \o PathsInTurn(ChildPathsOf(paths))

\* The regular files among the first n of these paths.
FilesAmong(paths, n) ==
    {paths[i] : i \in {k \in 1..n : Lstat(paths[k]) = "file"}}

\* The files whose catalog request was answered with an HTTP error.
FailedFiles ==
    {IF requests[i].method = "GET" THEN requests[i].body
     ELSE requests[i].body.logical_name :
        i \in {k \in 1..Len(requests) : requests[k].status = HTTP_ERROR}}

\* The sets of files the single-process loop can have indexed when it is
\* over: all of them, or, when the request for a file fails, those up to
\* that file.
SingleProcessIndexed ==
    LET paths == PathsInTurn(starting_paths) IN
    IF FailedFiles = {} THEN {FilesAmong(paths, Len(paths))}
    ELSE {FilesAmong(paths, n) : n \in {k \in 1..Len(paths) : paths[k] \in FailedFiles}}

\* The writes of a run in which no request fails: a POST for every file it
\* takes up, and with patch on a PATCH for a file it takes up again.
WritesToSend ==
    LET paths == PathsInTurn(starting_paths)
        files == FilesAmong(paths, Len(paths))
        again == {f \in files : \E i \in 1..Len(paths) : \E k \in 1..Len(paths) :
                                    i # k /\ paths[i] = f /\ paths[k] = f}
    IN  {<<"POST", generate(f)>> : f \in files}
        \cup {<<"PATCH", generate(f)>> : f \in {g \in again : patch}}

\* C30: for the same starting paths, denylist, flags and tree, the run with
\* one process and the runs with more index the same set of files and send
\* the same set of catalog writes: when a run of index.py is over, whatever
\* its n_processes, the files it has indexed are those the single-process
\* loop indexes for these inputs and the same failing request, and the
\* writes of a run that reached its end are those these inputs determine.
C30_SameFilesAndWrites ==
    (~legacy /\ RunOver) =>
        /\ IndexedFiles \in SingleProcessIndexed
        /\ r_pc = "done" => CatalogWrites = WritesToSend

(***************************************************************************)
(* Claims about the REST client                                            *)
(***************************************************************************)

\* The step sends a catalog request from the worker at place k.
SendsRequest(k) ==
    /\ Len(requests') > Len(requests)
    /\ requests'[Len(requests')].who = futures[k].id

\* C31: no catalog request is issued on a REST client after that client
\* has been closed: whoever sends a request, in a round of the
\* single-process loop or in a worker process, sends it on a client that
\* no _index call has closed yet.
C31_NoRequestAfterClose ==
    [][ \A k \in 1..Len(futures) :
            SendsRequest(k) => futures[k].client \notin fc_closed ]_vars

(***************************************************************************)
(* Claims about the repair of concatenated paths                           *)
(***************************************************************************)

\* The two paths that a concatenated path is split into.
PartsOf(path) == Range(fix_known_filepath_issues(path))

\* C32: a path made of two concatenated /data/exp/... paths that fails with
\* a not-a-directory error is split into the two paths; both are then
\* processed under the rules of any queued path -- one that the denylist
\* covers is neither indexed nor listed, any other is taken up by the time
\* the run has reached its end -- and the concatenated path itself is never
\* indexed.
C32_ConcatenatedRepaired ==
    \A v \in visited :
        v.path = P_concatenated =>
            /\ v.what = "fixed"
            /\ \A q \in PartsOf(v.path) :
                  /\ Denied(q) =>
                        ~\E u \in visited : u.path = q /\ u.what \in {"index", "list"}
                  /\ (r_pc = "done" /\ ~Denied(q)) => Handled(q)

(***************************************************************************)
(* Claims about the directory cache of the metadata manager                *)
(***************************************************************************)

\* What _prep_l2_dir_metadata can take from one directory.
ReadDescriptors(dir) == {e \in Descriptors(dir) : e.ok}
GapsArchives(dir) ==
    {e \in m_listing[dir] : e.is_file /\ ~IsMetaXml(e.name) /\ IsGapsTxt(e.name) /\ e.ok}
GCDFiles(dir) ==
    {e \in m_listing[dir] :
        e.is_file /\ ~IsMetaXml(e.name) /\ ~IsGapsTxt(e.name) /\ IsGCD(e.name)}

\* The cache holds what the directory holds, and nothing else.
CacheFrom(cache, dir) ==
    /\ cache.filled
    /\ cache.dir_meta_xml \in {None} \cup {Some(e.name) : e \in ReadDescriptors(dir)}
    /\ ReadDescriptors(dir) # {} => cache.dir_meta_xml # None
    /\ DOMAIN cache.gaps_files = UNION {e.members : e \in GapsArchives(dir)}
    /\ \A k \in DOMAIN cache.gaps_files :
          \E e \in GapsArchives(dir) : k \in e.members /\ cache.gaps_files[k] = e.name
    /\ DOMAIN cache.gcd_files = {parse_run_number(e.name).value : e \in GCDFiles(dir)}
    /\ \A r \in DOMAIN cache.gcd_files :
          \E e \in GCDFiles(dir) : cache.gcd_files[r] = File(dir, e.name)

\* The new_file call that this step begins, and the one it ends.
BeginsRebuild == m_pc = "idle" /\ m_pc' = "scan"
Returns == Len(m_results') = Len(m_results) + 1
Returned_ == m_results'[Len(m_results')]
StaysIdle == m_pc = "idle" /\ m_pc' = "idle"

\* C33: when new_file returns for an L2 file, the cache is the one of the
\* file's directory and holds what that directory holds and nothing else;
\* the directory is scanned exactly when it is not the cached one or nothing
\* is cached, the scan starts from an empty cache, and an L2 file of the
\* cached directory is served without a scan.
C33_CacheOfTheFilesDirectory ==
    [][ /\ (Returns /\ Returned_.kind = "L2" /\ Returned_.status = "ok") =>
              /\ m_dir_path' = Returned_.file.dir
              /\ CacheFrom(m_l2_dir_metadata', Returned_.file.dir)
        /\ BeginsRebuild =>
              /\ (~m_l2_dir_metadata.filled) \/ m_file'.dir # m_dir_path
              /\ m_l2_dir_metadata' = NoCache
              /\ m_gaps_files' = EmptyDict /\ m_gcd_files' = EmptyDict
              /\ m_dir_meta_xml' = None
        /\ (StaysIdle /\ Returns /\ Returned_.kind = "L2") =>
              /\ m_l2_dir_metadata.filled
              /\ Returned_.file.dir = m_dir_path
              /\ UNCHANGED <<m_l2_dir_metadata, m_dir_path, m_scanned>> ]_vars

\* A manager that served two L2 files of two directories, the first of
\* which has a gaps archive and a GCD file, and holds the second's
\* descriptor only.
C33_Witness ==
    /\ m_pc = "idle"
    /\ Len(m_results) = 2
    /\ \A i \in 1..2 : m_results[i].kind = "L2" /\ m_results[i].status = "ok"
    /\ m_results[1].file.dir # m_results[2].file.dir
    /\ m_results[1].gcd # None
    /\ m_results[2].gcd = None
    /\ m_dir_path = m_results[2].file.dir
    /\ m_l2_dir_metadata.gcd_files = EmptyDict

\* The scan raises on these entries, yielded in this order: a second
\* descriptor after one that was read, or a GCD file without a run number.
Fails(scanned) ==
    \/ \E i, j \in 1..Len(scanned) :
          /\ i < j
          /\ scanned[i] \in ReadDescriptors(m_dir_path)
          /\ scanned[j] \in Descriptors(m_dir_path)
    \/ \E i \in 1..Len(scanned) :
          /\ scanned[i] \in GCDFiles(m_dir_path)
          /\ parse_run_number(scanned[i].name).status # "ok"

\* This step ends the scan that a new_file call began.
ScanEnds == m_pc = "scan" /\ Returns

C35_OtherFilesLeaveTheCache ==
    [][ /\ (Returns /\ Returned_.kind # "L2") =>
              /\ StaysIdle
              /\ UNCHANGED <<m_l2_dir_metadata, m_dir_path, scanLocals>>
        /\ (Returns /\ m_basic_only) => Returned_.kind = "Basic"
        /\ m_basic_only =>
              UNCHANGED <<m_l2_dir_metadata, m_dir_path, scanLocals, m_pc>> ]_vars

\* An L2 file and then a file of another kind, and the manager still holds
\* the metadata of the L2 file's directory.
C35_Witness ==
    /\ m_pc = "idle"
    /\ Len(m_results) = 2
    /\ m_results[1].kind = "L2" /\ m_results[1].status = "ok"
    /\ m_results[2].kind \notin {"L2", "Basic"} /\ m_results[2].status = "ok"
    /\ m_results[2].file.dir = m_results[1].file.dir
    /\ m_dir_path = m_results[1].file.dir
    /\ m_l2_dir_metadata.filled
    /\ m_l2_dir_metadata.gcd_files # EmptyDict

(***************************************************************************)
(* Claims about the IceProd resolver                                       *)
(***************************************************************************)

\* The last call and, of a call of the resolver, what _get_outfile_info
\* returned in it.
LastCall == i_result[1]
SearchedOutfiles ==
    /\ i_result # None
    /\ LastCall.call = "resolve"
    /\ LastCall.out.outfile # None
Outfile == LastCall.out.outfile[1]

\* The candidates of the search of the last call: an output descriptor (by
\* its place in the declaration), a job index and an iteration, whose URL,
\* expanded with them, is the path of the file.
OutputDescriptors == _get_outfiles(JobConfig)
JobsTried ==
    IF LastCall.file.iceprod_job_index # None
    THEN {LastCall.file.iceprod_job_index[1]}
    ELSE 0..(JobConfig.jobs_submitted - 1)
MatchingCandidates ==
    {c \in (1..Len(OutputDescriptors)) \X JobsTried \X
            (0..(MaxOf({OutputDescriptors[d].iters :
                            d \in 1..Len(OutputDescriptors)}) - 1)) :
        /\ c[3] < OutputDescriptors[c[1]].iters
        /\ get_path_from_url(OutputDescriptors[c[1]],
                             [dataset |-> Outfile.steering[1].dataset,
                              job |-> Some(c[2]), iter |-> Some(c[3]),
                              task |-> Some(OutputDescriptors[c[1]].task)])
              = LastCall.file.path}

\* c is tried before d: a descriptor declared later, else a smaller job
\* index, else a smaller iteration.
TriedBefore(c, d) ==
    \/ c[1] > d[1]
    \/ c[1] = d[1] /\ c[2] < d[2]
    \/ c[1] = d[1] /\ c[2] = d[2] /\ c[3] < d[3]

\* C36: when some candidate's expanded URL path is the path of the file,
\* _get_outfile_info returns the job index and the task name of the
\* matching candidate that comes first in the order "descriptors from the
\* last declared to the first, then job indexes upwards, then iterations
\* upwards"; with a job index supplied, the job returned is that one.
C36_FirstCandidateInOrder ==
    (SearchedOutfiles /\ MatchingCandidates # {}) =>
        /\ \E c \in MatchingCandidates :
              /\ \A d \in MatchingCandidates \ {c} : TriedBefore(c, d)
              /\ Outfile.job = Some(c[2])
              /\ Outfile.task = Some(OutputDescriptors[c[1]].task)
              /\ Outfile.steering[1].iter = Some(c[3])
        /\ LastCall.file.iceprod_job_index # None =>
              Outfile.job = LastCall.file.iceprod_job_index

\* A file whose path two descriptors of two tasks expand to, resolved to
\* the task declared last, and without a job index supplied.
C36_Witness ==
    /\ SearchedOutfiles
    /\ LastCall.file.iceprod_job_index = None
    /\ Cardinality({OutputDescriptors[c[1]].task : c \in MatchingCandidates}) > 1
    /\ Outfile.task = Some("filter")
    /\ Outfile.job = Some(1)

\* The dataset number supplied with the file of the last call serves no
\* querier: there is none, or it is in neither range.
NoUsableDataset ==
    \/ LastCall.file.iceprod_dataset_num = None
    \/ LastCall.file.iceprod_dataset_num[1]
          \notin _ICEPROD_V2_DATASET_RANGE \cup _ICEPROD_V1_DATASET_RANGE

\* The places of the directory segments of the path that are integers of
\* the range, and the rightmost of them (none or one).
DirSegmentsIn(path, range) ==
    {k \in 1..(Len(path) - 1) :
        path[k].text = "" /\ path[k].num # None /\ path[k].num[1] \in range}
RightmostIn(path, range) ==
    {path[k].num[1] : k \in {j \in DirSegmentsIn(path, range) :
                                \A l \in DirSegmentsIn(path, range) : l <= j}}

\* The dataset number that the path gives: of the current range if it has
\* one, else of the legacy range.
DatasetOfPath(path) ==
    IF RightmostIn(path, _ICEPROD_V2_DATASET_RANGE) # {}
    THEN RightmostIn(path, _ICEPROD_V2_DATASET_RANGE)
    ELSE RightmostIn(path, _ICEPROD_V1_DATASET_RANGE)

\* C37: a resolution without a usable dataset number is the resolution of
\* the dataset that the directory segments of the path give, by the querier
\* of that dataset's range: the rightmost integer segment of 20000..29999,
\* else the rightmost of 0..19999; with neither, DatasetNotFound is raised
\* before anything is asked of IceProd.
C37_DatasetFromDirpath ==
    (i_result # None /\ LastCall.call = "resolve" /\ NoUsableDataset) =>
        /\ DatasetOfPath(LastCall.file.path) = {} =>
              /\ LastCall.out.status = "DatasetNotFound"
              /\ LastCall.out.awaited = LastCall.before
        /\ \A n \in DatasetOfPath(LastCall.file.path) :
              LastCall.out =
                 IF n \in _ICEPROD_V2_DATASET_RANGE
                 THEN V2_get_steering_params_and_ip_metadata(
                          LastCall.file.path, n, LastCall.file.iceprod_job_index,
                          i_stores, LastCall.before)
                 ELSE V1_get_steering_params_and_ip_metadata(
                          n, LastCall.file.iceprod_job_index, i_stores,
                          LastCall.before)

\* A path with a segment of the legacy range to the right of one of the
\* current range, resolved without a dataset number to the dataset of the
\* current range.
C37_Witness ==
    /\ i_result # None
    /\ LastCall.call = "resolve"
    /\ LastCall.file.iceprod_dataset_num = None
    /\ RightmostIn(LastCall.file.path, _ICEPROD_V2_DATASET_RANGE) = {20002}
    /\ RightmostIn(LastCall.file.path, _ICEPROD_V1_DATASET_RANGE) = {2012}
    /\ LastCall.out.status = "ok"
    /\ LastCall.out.metadata[1].dataset = Some(20002)

\* The dataset that the last call resolved (none or one): the number
\* supplied when a querier serves it, else the one of the path.
DatasetOfCall ==
    IF NoUsableDataset THEN DatasetOfPath(LastCall.file.path)
    ELSE {LastCall.file.iceprod_dataset_num[1]}

\* The resolution of the same file as the first one of a process.
AsFirstResolution ==
    get_steering_params_and_ip_metadata(
        LastCall.file.iceprod_dataset_num, LastCall.file.path,
        LastCall.file.iceprod_job_index, i_stores, {})

\* C38: a resolution made after the job config of the same IceProd 2
\* dataset was fetched for an earlier file comes to what it would come to
\* as the first resolution of the process: the same exception or the same
\* steering parameters and IceProd metadata.
C38_NothingCarriedOver ==
    (/\ i_result # None
     /\ LastCall.call = "resolve"
     /\ \E n \in DatasetOfCall : CacheKey("config", n, 0) \in LastCall.before) =>
        /\ LastCall.out.status = AsFirstResolution.status
        /\ LastCall.out.steering = AsFirstResolution.steering
        /\ LastCall.out.metadata = AsFirstResolution.metadata

(***************************************************************************)
(* Claims about the submissions of the traverser                           *)
(***************************************************************************)

\* The directories the claim is about: a root or under a root, and
\* neither excluded nor under an excluded path.  (A symbolic link is no
\* directory of the tree, and nothing lies under one.)
ToBeScanned ==
    {d \in DOMAIN TravTree :
        /\ TravTree[d] = "dir"
        /\ \E r \in Range(t_paths) : d = r \/ IsUnder(d, r)
        /\ ~Excluded(d)}

\* How many times the directory was handed to pool.submit.
Submissions(d) == Cardinality({i \in 1..Len(t_submitted) : t_submitted[i] = d})

\* C39: no directory that is to be scanned is submitted twice; when the
\* traverser has stopped each of them was submitted once, nothing is pending
\* and no scan is outstanding.
C39_SubmittedExactlyOnce ==
    /\ \A d \in ToBeScanned : Submissions(d) <= 1
    /\ t_pc = "done" =>
          /\ \A d \in ToBeScanned : Submissions(d) = 1
          /\ t_dirs = <<>>
          /\ t_futures = <<>>

====
